---- MODULE Spec2Model ----
(***************************************************************************)
(* The L7 request dispatcher of src/load-balancer/main.go: the worker      *)
(* registry, the four selection algorithms, the health prober, the circuit *)
(* breaker and the /task forwarding path.                                  *)
(*                                                                         *)
(* Granularity.  Every access to shared memory of the Go code is one step: *)
(* a section under lb.mu (Lock or RLock) is one step, because the lock     *)
(* makes it atomic with respect to every other section, and every atomic.* *)
(* call is one step.  Code that touches only locals (decoding, timing, the *)
(* metrics, writing the HTTP response) is folded into the neighbouring     *)
(* step.  SelectWorker holds lb.mu.RLock for the whole selection, so the   *)
(* flags it reads cannot change during it; the selection is one step.      *)
(***************************************************************************)
EXTENDS Integers, Sequences, FiniteSets

\* ---------------------------------------------------------------- bounds
NumWorkers == 1        \* workers registered by main() in Spec
NumHandlers == 2       \* POST /task requests served concurrently
MaxTasks == 3          \* POST /task requests accepted over a run
MaxProbes == 1         \* checkWorker goroutines alive per worker
MaxConsec == 4         \* cap of ConsecFailures
MaxPatchWeight == 0    \* largest weight sent by PATCH /workers/{name} in Spec
SelWorkers == 3        \* workers of the registries the selector is applied to
MaxWeight == 2         \* largest Weight in those registries
MaxLoad == 1           \* largest CurrentLoad in those registries
MaxCursor == 9         \* direct SelectWorker calls over a run
ProbeWorkers == 2      \* workers registered in SpecProbe
MaxInFlight == 2       \* checkWorker goroutines alive per worker in SpecProbe
StatusHandlers == 1    \* POST /task requests served beside GetStatus in SpecStatus
MaxConns == 2          \* connections upgraded on /ws over a run
PushHandlers == 1      \* POST /task requests served beside the push stream
MaxSnapshots == 2      \* snapshots requested by handlers and the ticker over a run
SvcRequests == 3       \* requests the worker service handles concurrently
MaxConcurrentRequests == 1  \* the worker service's MAX_CONCURRENT_REQUESTS
QueueSize == 2         \* the worker service's QUEUE_SIZE
MaxDrift == 2          \* no request arrives once activeRequests is this far below 0
SeqInputs == 6         \* POST /task requests served one after the other in SpecSeq
CfgMaxInt == 1         \* largest integer a /config body carries
MaxBodyFields == 2     \* most fields a /config body carries
LCWorkers == 2         \* workers registered in SpecLC
LCTasks == 1           \* POST /task requests arriving in SpecLC
LoopConns == 1         \* connections opened beside the two ticker loops
NumGoroutines == 3     \* goroutines that run operations on the two locks
MaxPending == 1        \* handlers inside their BroadcastStatus call with nobody subscribed
MaxEarly == 1          \* POST /task requests accepted before the last rejected request

\* ---------------------------------------------------- program constants
circuitThreshold == 3
MaxInt64 == 2147483647 \* int64(1<<63 - 1) of leastConnections, scaled to 32 bits;
                       \* every CurrentLoad of the model is far below it

Nil == 0               \* the nil *Worker; workers are 1..Len(workers)

\* the HTTP statuses the handlers answer
StatusOK == 200
StatusBadRequest == 400
StatusNotFound == 404
StatusMethodNotAllowed == 405
StatusServiceUnavailable == 503
StatusInternalServerError == 500
StatusBadGateway == 502

availableAlgorithms == <<"round-robin", "least-connections", "weighted", "random">>

validAlgorithms == {availableAlgorithms[i] : i \in 1..Len(availableAlgorithms)}

\* the names given to the dispatcher: the four it knows and one it does not
AlgorithmNames == validAlgorithms \cup {"fastest"}

\* weights of main()'s workerConfigs, in registration order
workerConfigs == <<5, 2, 6, 1, 1, 3>>

VARIABLES
  workers,        \* lb.workers: sequence of Worker records
  algorithm,      \* lb.algorithm
  roundRobinIdx,  \* lb.roundRobinIdx
  pc,             \* per /task handler: where it stands in handleTask
  worker,         \* per /task handler: the local `worker` (index, Nil if none)
  probe,          \* per worker: checkWorker goroutines by position
  tasks,          \* POST /task requests accepted so far
  result,         \* what the last direct call of SelectWorker returned
  rrLog,          \* history: the workers returned by the round-robin selections
                  \* made since the eligible set or the algorithm last changed
  okSinceFail,    \* history: per worker, a success was observed since a failure
                  \* last brought ConsecFailures to the threshold or above
  okSinceOpen,    \* history: per worker, a success was observed since the
                  \* failure that last took its circuit from closed to open
  resp,           \* the HTTP status of the last response written (0: none yet)
  setAlgo,        \* history: the argument of the last SetAlgorithm that returned
  status,         \* the GetStatus call in progress: its position and its map
  seen,           \* history: the reports that were true at some instant of that call
  wsClients,      \* lb.wsClients: the registered connections
  conn,           \* per connection: where handleWebSocket stands, what was sent
  broadcast,      \* the BroadcastStatus call that holds lb.wsClientsMu
  waiting,        \* handlers that have reached their BroadcastStatus call
  taken,          \* history: GetStatus calls made for frames so far
  changedAt,      \* history: the value of taken when a handler last made a change
  activeRequests, \* the worker service's activeRequests
  requestQueue,   \* the worker service's requestQueue: tokens in the channel
  svcPc,          \* per request to the worker service: where handleTask stands
  run,            \* history: per worker, the forwards failed since its latest success
  config,         \* the worker service's config
  cfgBody,        \* history: the fields carried by the last /config body applied
  proxy,          \* the request handleWorkerConfig has passed on to the worker
  scan,           \* the leastConnections call in progress: its position and locals
  loads,          \* history: the CurrentLoad values of the instants of that call
  writing,        \* per connection, the WriteMessage calls in progress
  loop,           \* the root context and the positions of the two ticker loops
  locks,          \* lb.mu (a sync.RWMutex) and lb.wsClientsMu (a sync.Mutex)
  op              \* per goroutine, the calls left of the operation it runs

\* the dispatcher's registry, selector, prober and /task handlers
core == <<workers, algorithm, roundRobinIdx, pc, worker, probe, tasks, result, rrLog,
         okSinceFail, okSinceOpen, resp, setAlgo>>

statusVars == <<status, seen>>

pushVars == <<wsClients, conn, broadcast, waiting, taken, changedAt>>

svcVars == <<activeRequests, requestQueue, svcPc>>

cfgVars == <<config, cfgBody, proxy>>

lcVars == <<scan, loads>>

lockVars == <<locks, op>>

\* what the actions on the push stream and on the core do not mention
tail == <<cfgVars, lcVars, writing, loop, lockVars>>

\* what the requests to /config leave alone beside the dispatcher's core
notCfg == <<statusVars, pushVars, svcVars, run, lcVars, writing, loop, lockVars>>

\* what a leastConnections call leaves alone
notLC == <<core, statusVars, pushVars, svcVars, run, cfgVars, writing, loop, lockVars>>

\* what the actions on the dispatcher's core do not touch
outside == <<statusVars, pushVars, svcVars, run, tail>>

\* what a handler that ends in lb.BroadcastStatus() does not touch
beyond == <<statusVars, wsClients, conn, broadcast, taken, svcVars, run, tail>>

\* the frames of the actions that stay within one part
notStatus == <<core, pushVars, svcVars, run, tail>>

notPush == <<statusVars, svcVars, run>>

notSvc == <<core, statusVars, pushVars, run, tail>>

vars == <<core, outside>>

Handlers == 1..NumHandlers

\* ----------------------------------------------------------- the registry
Worker(weight) ==
  [Weight |-> weight, Healthy |-> TRUE, Enabled |-> TRUE, CircuitOpen |-> FALSE,
   CurrentLoad |-> 0, TotalRequests |-> 0, FailedRequests |-> 0,
   ConsecFailures |-> 0]

AddWorker(ws, weight) == Append(ws, Worker(weight))

Eligible(w) == w.Healthy /\ w.Enabled /\ ~w.CircuitOpen

EligibleSet(ws) == {i \in 1..Len(ws) : Eligible(ws[i])}

\* ---------------------------------------------------------- the selector
RECURSIVE RoundRobinScan(_, _, _)
RoundRobinScan(ws, startIdx, i) ==
  IF i >= Len(ws) THEN Nil
  ELSE LET idx == (startIdx + i) % Len(ws)
       IN IF Eligible(ws[idx + 1]) THEN idx + 1
          ELSE RoundRobinScan(ws, startIdx, i + 1)

\* roundRobin without the test of the three flags
roundRobinUnchecked(ws, startIdx) == (startIdx % Len(ws)) + 1

\* startIdx is the value atomic.AddUint64 returned
\* roundRobin scanning from the first registered worker whatever the cursor
roundRobinFromZero(ws, startIdx) == RoundRobinScan(ws, 0, 0)

roundRobin(ws, startIdx) == RoundRobinScan(ws, startIdx, 0)

\* LeastConnectionsScan with load <= minLoad: the last minimal worker wins
RECURSIVE LeastConnectionsScanLast(_, _, _, _)
LeastConnectionsScanLast(ws, i, minLoad, selected) ==
  IF i > Len(ws) THEN selected
  ELSE IF ~Eligible(ws[i]) THEN LeastConnectionsScanLast(ws, i + 1, minLoad, selected)
  ELSE IF ws[i].CurrentLoad <= minLoad
       THEN LeastConnectionsScanLast(ws, i + 1, ws[i].CurrentLoad, i)
       ELSE LeastConnectionsScanLast(ws, i + 1, minLoad, selected)

RECURSIVE LeastConnectionsScan(_, _, _, _)
LeastConnectionsScan(ws, i, minLoad, selected) ==
  IF i > Len(ws) THEN selected
  ELSE IF ~Eligible(ws[i]) THEN LeastConnectionsScan(ws, i + 1, minLoad, selected)
  ELSE IF ws[i].CurrentLoad < minLoad
       THEN LeastConnectionsScan(ws, i + 1, ws[i].CurrentLoad, i)
       ELSE LeastConnectionsScan(ws, i + 1, minLoad, selected)

leastConnections(ws) == LeastConnectionsScan(ws, 1, MaxInt64, Nil)

RECURSIVE TotalWeight(_, _)
TotalWeight(ws, i) ==
  IF i > Len(ws) THEN 0
  ELSE (IF Eligible(ws[i]) THEN ws[i].Weight ELSE 0) + TotalWeight(ws, i + 1)

\* FirstEligible without the test of the flags: the first registered worker
FirstRegistered(ws, i) == IF i > Len(ws) THEN Nil ELSE i

RECURSIVE FirstEligible(_, _)
FirstEligible(ws, i) ==
  IF i > Len(ws) THEN Nil
  ELSE IF Eligible(ws[i]) THEN i ELSE FirstEligible(ws, i + 1)

\* WeightedWalk returning at r <= 0 instead of r < 0
RECURSIVE WeightedWalkOffByOne(_, _, _)
WeightedWalkOffByOne(ws, i, r) ==
  IF i > Len(ws) THEN Nil
  ELSE IF Eligible(ws[i])
       THEN IF r - ws[i].Weight <= 0 THEN i
            ELSE WeightedWalkOffByOne(ws, i + 1, r - ws[i].Weight)
       ELSE WeightedWalkOffByOne(ws, i + 1, r)

RECURSIVE WeightedWalk(_, _, _)
WeightedWalk(ws, i, r) ==
  IF i > Len(ws) THEN Nil
  ELSE IF Eligible(ws[i])
       THEN IF r - ws[i].Weight < 0 THEN i
            ELSE WeightedWalk(ws, i + 1, r - ws[i].Weight)
       ELSE WeightedWalk(ws, i + 1, r)

\* weighted without the fallback for a total weight of 0
weightedNoFallback(ws, r) == WeightedWalk(ws, 1, r)

\* r is the value rand.Intn(totalWeight) returned
weighted(ws, r) ==
  IF TotalWeight(ws, 1) = 0 THEN FirstEligible(ws, 1)
  ELSE WeightedWalk(ws, 1, r)

RECURSIVE RandomWalk(_, _, _, _)
RandomWalk(ws, i, current, r) ==
  IF i > Len(ws) THEN Nil
  ELSE IF Eligible(ws[i])
       THEN IF current = r THEN i ELSE RandomWalk(ws, i + 1, current + 1, r)
       ELSE RandomWalk(ws, i + 1, current, r)

\* r is the value rand.Intn(count) returned
random(ws, r) ==
  IF Cardinality(EligibleSet(ws)) = 0 THEN Nil
  ELSE RandomWalk(ws, 1, 0, r)

\* the values rand.Intn can return in a selection under algo
Draws(ws, algo) ==
  IF algo = "weighted" /\ TotalWeight(ws, 1) > 0 THEN 0..(TotalWeight(ws, 1) - 1)
  ELSE IF algo = "random" /\ EligibleSet(ws) # {} THEN 0..(Cardinality(EligibleSet(ws)) - 1)
  ELSE {0}

\* a cursor that roundRobin reads without advancing it
NextIdxStuck(ws, algo, idx) == idx

\* the cursor after the selection: only roundRobin advances it
NextIdx(ws, algo, idx) ==
  IF Len(ws) > 0 /\ algo \notin {"least-connections", "weighted", "random"}
  THEN idx + 1 ELSE idx

\* SelectWorker returning the first registered worker whatever its flags
SelectWorkerFirst(ws, algo, idx, r) == IF Len(ws) = 0 THEN Nil ELSE 1

SelectWorker(ws, algo, idx, r) ==
  IF Len(ws) = 0 THEN Nil
  ELSE CASE algo = "least-connections" -> leastConnections(ws)
         [] algo = "weighted" -> weighted(ws, r)
         [] algo = "random" -> random(ws, r)
         [] OTHER -> roundRobin(ws, idx + 1)

\* --------------------------------------------------- registry mutations
\* a Go pointer argument: <<>> is nil, <<v>> points to v
Opt(S) == {<<>>} \cup {<<v>> : v \in S}

\* the empty worker name of PATCH /workers/
EmptyName == -1

\* name is the index of the worker of that name, 0 when no worker has it
UpdateWorkerFound(ws, name) == name \in 1..Len(ws)

\* UpdateWorker storing every weight it is given, positive or not
UpdateWorkerAnyWeight(ws, name, enabled, weight) ==
  IF ~UpdateWorkerFound(ws, name) THEN ws
  ELSE LET w1 == IF enabled # <<>>
                 THEN [ws[name] EXCEPT !.Enabled = enabled[1]] ELSE ws[name]
           w2 == IF weight # <<>>
                 THEN [w1 EXCEPT !.Weight = weight[1]] ELSE w1
       IN [ws EXCEPT ![name] = w2]

UpdateWorker(ws, name, enabled, weight) ==
  IF ~UpdateWorkerFound(ws, name) THEN ws
  ELSE LET w1 == IF enabled # <<>>
                 THEN [ws[name] EXCEPT !.Enabled = enabled[1]] ELSE ws[name]
           w2 == IF weight # <<>> /\ weight[1] > 0
                 THEN [w1 EXCEPT !.Weight = weight[1]] ELSE w1
       IN [ws EXCEPT ![name] = w2]

\* -------------------------------------------------------------- start-up
RECURSIVE Registered(_)
Registered(n) ==
  IF n = 0 THEN <<>> ELSE AddWorker(Registered(n - 1), workerConfigs[n])

NoProbe == [get |-> 0, read |-> 0, close |-> 0, open |-> 0]

ProbeCount(p) == p.get + p.read + p.close + p.open

\* ------------------------------------------------------------- GetStatus
\* the fields of a Worker that GetStatus reports, lines 256-268 (name, url,
\* color and maxLoad never change and are left out)
ReportWorker(w) ==
  [weight |-> w.Weight, healthy |-> w.Healthy, currentLoad |-> w.CurrentLoad,
   enabled |-> w.Enabled, totalRequests |-> w.TotalRequests,
   failedRequests |-> w.FailedRequests, circuitOpen |-> w.CircuitOpen]

\* the map of lines 270-273 over a registry read in one instant
Report(ws, algo) ==
  [algorithm |-> algo, workers |-> [i \in 1..Len(ws) |-> ReportWorker(ws[i])]]

\* no GetStatus call is running
NoStatus == [pc |-> "idle", i |-> 0, load |-> 0, total |-> 0, workers |-> <<>>,
             algorithm |-> ""]

\* GetStatus holds lb.mu.RLock: every lb.mu.Lock waits
Reading == status.pc \in {"load", "total", "failed", "ret"}

Conns == 1..MaxConns

\* a frame: the snapshot it carries and the rank of its GetStatus call
NoFrame == [seq |-> 0, data |-> <<>>]

\* a connection that was not made yet
NoConn == [pc |-> "none", hello |-> NoFrame, frames |-> <<>>, broken |-> FALSE]

\* lb.wsClientsMu is free
NoBroadcast == [on |-> FALSE, handler |-> FALSE, frame |-> NoFrame, todo |-> {}, client |-> 0]

\* the JSON names of the fields of Configuration, src/workers/go/main.go
\* lines 23-29
CfgFields == {"max_concurrent_requests", "response_delay_ms", "failure_rate", "queue_size"}

\* loadConfig, lines 117-124, with none of the environment variables set;
\* failure_rate is in hundredths here and below
loadConfig ==
  [max_concurrent_requests |-> 10, response_delay_ms |-> 100, failure_rate |-> 0,
   queue_size |-> 50]

\* a JSON object with none of the fields: <<>> stands for a field the body
\* does not carry, <<v>> for a field it carries with the value v
EmptyBody ==
  [max_concurrent_requests |-> <<>>, response_delay_ms |-> <<>>, failure_rate |-> <<>>,
   queue_size |-> <<>>]

\* handleWorkerConfig has no request on its way to the worker
NoProxy == [pc |-> "none", method |-> "", decoded |-> FALSE, body |-> EmptyBody,
            status |-> 0]

\* no leastConnections call is running
NoScan == [pc |-> "idle", i |-> 0, minLoad |-> 0, selected |-> Nil, eligible |-> {}]

\* main, lines 709-713: the context is live and both loops wait in their select
NoLoop == [cancelled |-> FALSE, health |-> "select", bcast |-> "select"]

\* both locks free: nobody holds or awaits lb.mu, nobody holds lb.wsClientsMu
NoLocks == [readers |-> {}, rwait |-> {}, w |-> 0, ws |-> 0]

\* a goroutine that runs none of the operations
NoOp == [todo |-> <<>>, blocked |-> FALSE]

Goroutines == 1..NumGoroutines

OutsideInit ==
  /\ status = NoStatus
  /\ seen = {}
  /\ wsClients = {}
  /\ conn = [c \in Conns |-> NoConn]
  /\ broadcast = NoBroadcast
  /\ waiting = 0
  /\ taken = 0
  /\ changedAt = 0
  /\ activeRequests = 0
  /\ requestQueue = 0
  /\ svcPc = [t \in 1..SvcRequests |-> "idle"]
  /\ run = [i \in 1..NumWorkers |-> 0]
  /\ config = loadConfig
  /\ cfgBody = {}
  /\ proxy = NoProxy
  /\ scan = NoScan
  /\ loads = {}
  /\ writing = [c \in Conns |-> {}]
  /\ loop = NoLoop
  /\ locks = NoLocks
  /\ op = [g \in Goroutines |-> NoOp]

\* the value of a variable whose part of the program a specification leaves
\* out: no step of the specification reads or changes it
Absent == <<>>

\* the steps of GetStatus, the worker service and its /config, the scan of
\* leastConnections, the ticker loops and the locks are left out
OthersAbsent ==
  /\ run = [i \in 1..NumWorkers |-> 0]
  /\ status = Absent
  /\ seen = Absent
  /\ activeRequests = Absent
  /\ requestQueue = Absent
  /\ svcPc = Absent
  /\ config = Absent
  /\ cfgBody = Absent
  /\ proxy = Absent
  /\ scan = Absent
  /\ loads = Absent
  /\ loop = Absent
  /\ locks = Absent
  /\ op = Absent

\* main(): NewLoadBalancer gives round-robin; a non-empty LB_ALGORITHM is passed
\* to SetAlgorithm as it is (lines 673-675).  Nobody connects on /ws.
Init ==
  /\ workers = Registered(NumWorkers)
  /\ algorithm \in {"round-robin"} \cup AlgorithmNames
  /\ setAlgo = algorithm
  /\ resp = 0
  /\ roundRobinIdx = 0
  /\ pc = [h \in Handlers |-> "idle"]
  /\ worker = [h \in Handlers |-> Nil]
  /\ probe = [i \in 1..NumWorkers |-> NoProbe]
  /\ tasks = 0
  /\ result = Nil
  /\ rrLog = <<>>
  /\ okSinceFail = [i \in 1..NumWorkers |-> TRUE]
  /\ okSinceOpen = [i \in 1..NumWorkers |-> TRUE]
  /\ wsClients = {}
  /\ broadcast = NoBroadcast
  /\ waiting = 0
  /\ taken = 0
  /\ changedAt = 0
  /\ conn = Absent
  /\ writing = Absent
  /\ OthersAbsent

\* ------------------------------------------- the call of BroadcastStatus
\* lines 459, 511, 547: the handler has made its change and answered; when the
\* answer is the success it goes on to lb.BroadcastStatus().  The call is a
\* later step: it stands before lb.wsClientsMu.Lock() of line 361 and goes on
\* in BroadcastLock, which looks at lb.wsClients as they are then, and in
\* BroadcastWrite.
BroadcastStatusCalled(answered) ==
  /\ waiting' = IF answered THEN waiting + 1 ELSE waiting
  /\ changedAt' = IF answered THEN taken ELSE changedAt

\* status := lb.GetStatus(); data, _ := json.Marshal(status)
Snapshot == [seq |-> taken + 1, data |-> Report(workers, algorithm)]

\* the calls of BroadcastStatus that found a client and made a frame of their
\* snapshot
Broadcasts == taken - Cardinality({c \in Conns : conn[c].hello.seq > 0})

\* the forwards answered with success whose handler has not finished
Answered == Cardinality({h \in Handlers : pc[h] = "success"})

\* the handlers and the ticker ask for at most MaxSnapshots broadcasts
Budget == Broadcasts + waiting + Answered < MaxSnapshots

\* lines 361-371: lb.wsClientsMu.Lock(), GetStatus, Marshal, by a handler or
\* by the ticker of StartBroadcast (lines 380-391); with no client in
\* lb.wsClients the loop of line 371 has no turn, no frame is made of the
\* snapshot and the call returns; else the range over the map gives the loop
\* its first client, any of them
BroadcastLock(handler) ==
  /\ ~broadcast.on
  /\ IF handler THEN waiting > 0 ELSE Budget
  /\ IF wsClients = {}
     THEN /\ waiting' = IF handler THEN waiting - 1 ELSE waiting
          /\ UNCHANGED <<broadcast, taken>>
     ELSE /\ \E client \in wsClients :
               broadcast' = [on |-> TRUE, handler |-> handler, frame |-> Snapshot,
                             todo |-> wsClients, client |-> client]
          /\ taken' = taken + 1
          /\ UNCHANGED waiting
  /\ UNCHANGED <<wsClients, conn, changedAt, core, notPush>>

\* at most MaxPending handlers are inside their call at a time: while one is,
\* no further request to /algorithm or /workers/ arrives and no forward is
\* answered
CallFree == waiting < MaxPending

\* ------------------------------------------------------------ handleTask
\* lines 396-399: a request to /task that is not a POST is answered 405
HandleTaskMethod(h) ==
  /\ pc[h] = "idle"
  /\ resp' = StatusMethodNotAllowed
  /\ UNCHANGED <<workers, algorithm, roundRobinIdx, pc, worker, probe, tasks, result, rrLog,
                 okSinceFail, okSinceOpen, setAlgo>>

\* lines 401-411: SelectWorker under lb.mu.RLock; nil is answered 503; max
\* caps the requests accepted over a run
HandleTaskSelectUpTo(h, max) ==
  /\ pc[h] = "idle"
  /\ tasks < max
  /\ \E r \in Draws(workers, algorithm) :
       LET w == SelectWorker(workers, algorithm, roundRobinIdx, r)
       IN /\ worker' = [worker EXCEPT ![h] = w]
          /\ pc' = [pc EXCEPT ![h] = IF w = Nil THEN "idle" ELSE "incLoad"]
          /\ resp' = IF w = Nil THEN StatusServiceUnavailable ELSE resp
  /\ roundRobinIdx' = NextIdx(workers, algorithm, roundRobinIdx)
  /\ tasks' = tasks + 1
  /\ UNCHANGED <<workers, algorithm, probe, result, rrLog, okSinceFail, okSinceOpen, setAlgo>>

HandleTaskSelect(h) == HandleTaskSelectUpTo(h, MaxTasks)

\* line 413: atomic.AddInt64(&worker.CurrentLoad, 1)
HandleTaskIncLoad(h) ==
  /\ pc[h] = "incLoad"
  /\ workers' = [workers EXCEPT ![worker[h]].CurrentLoad = @ + 1]
  /\ pc' = [pc EXCEPT ![h] = "incTotal"]
  /\ UNCHANGED <<algorithm, roundRobinIdx, worker, probe, tasks, result, rrLog, okSinceFail, okSinceOpen, resp, setAlgo>>

\* HandleTaskIncTotal sending the POST without counting the request
HandleTaskIncTotalSkip(h) ==
  /\ pc[h] = "incTotal"
  /\ pc' = [pc EXCEPT ![h] = "post"]
  /\ UNCHANGED <<workers, algorithm, roundRobinIdx, worker, probe, tasks, result, rrLog, okSinceFail, okSinceOpen, resp, setAlgo>>

\* lines 414-420: atomic.AddInt64(&worker.TotalRequests, 1), then the POST is sent
HandleTaskIncTotal(h) ==
  /\ pc[h] = "incTotal"
  /\ workers' = [workers EXCEPT ![worker[h]].TotalRequests = @ + 1]
  /\ pc' = [pc EXCEPT ![h] = "post"]
  /\ UNCHANGED <<algorithm, roundRobinIdx, worker, probe, tasks, result, rrLog, okSinceFail, okSinceOpen, resp, setAlgo>>

\* HandleTaskResponse with the decrement on the success path only
HandleTaskResponseLeak(h, ok) ==
  /\ pc[h] = "post"
  /\ workers' = IF ok THEN [workers EXCEPT ![worker[h]].CurrentLoad = @ - 1] ELSE workers
  /\ pc' = [pc EXCEPT ![h] = IF ok THEN "success" ELSE "fail"]
  /\ okSinceOpen' = IF ok THEN [okSinceOpen EXCEPT ![worker[h]] = TRUE] ELSE okSinceOpen
  /\ okSinceFail' = IF ok THEN [okSinceFail EXCEPT ![worker[h]] = TRUE] ELSE okSinceFail
  /\ UNCHANGED <<algorithm, roundRobinIdx, worker, probe, tasks, result, rrLog, resp, setAlgo>>

\* lines 420-427: the POST returns (ok: no error and status < 500), then
\* atomic.AddInt64(&worker.CurrentLoad, -1)
HandleTaskResponse(h, ok) ==
  /\ pc[h] = "post"
  /\ workers' = [workers EXCEPT ![worker[h]].CurrentLoad = @ - 1]
  /\ pc' = [pc EXCEPT ![h] = IF ok THEN "success" ELSE "fail"]
  /\ okSinceOpen' = IF ok THEN [okSinceOpen EXCEPT ![worker[h]] = TRUE] ELSE okSinceOpen
  /\ okSinceFail' = IF ok THEN [okSinceFail EXCEPT ![worker[h]] = TRUE] ELSE okSinceFail
  /\ UNCHANGED <<algorithm, roundRobinIdx, worker, probe, tasks, result, rrLog, resp, setAlgo>>

\* HandleTaskFail without the count of the failed request
HandleTaskFailSkip(h) ==
  /\ pc[h] = "fail"
  /\ pc' = [pc EXCEPT ![h] = "consec"]
  /\ UNCHANGED <<workers, algorithm, roundRobinIdx, worker, probe, tasks, result, rrLog, okSinceFail, okSinceOpen, resp, setAlgo>>

\* HandleTaskFail counting the failed request twice
HandleTaskFailTwice(h) ==
  /\ pc[h] = "fail"
  /\ workers' = [workers EXCEPT ![worker[h]].FailedRequests = @ + 2]
  /\ pc' = [pc EXCEPT ![h] = "consec"]
  /\ UNCHANGED <<algorithm, roundRobinIdx, worker, probe, tasks, result, rrLog, okSinceFail, okSinceOpen, resp, setAlgo>>

\* line 428: atomic.AddInt64(&worker.FailedRequests, 1)
HandleTaskFail(h) ==
  /\ pc[h] = "fail"
  /\ workers' = [workers EXCEPT ![worker[h]].FailedRequests = @ + 1]
  /\ pc' = [pc EXCEPT ![h] = "consec"]
  /\ UNCHANGED <<algorithm, roundRobinIdx, worker, probe, tasks, result, rrLog, okSinceFail, okSinceOpen, resp, setAlgo>>

\* HandleTaskConsec forwarding again to the same worker after the failure
HandleTaskConsecRetry(h) ==
  /\ pc[h] = "consec"
  /\ workers[worker[h]].ConsecFailures < MaxConsec
  /\ workers' = [workers EXCEPT ![worker[h]].ConsecFailures = @ + 1]
  /\ pc' = [pc EXCEPT ![h] = "incLoad"]
  /\ okSinceFail' = IF workers[worker[h]].ConsecFailures + 1 >= circuitThreshold
                    THEN [okSinceFail EXCEPT ![worker[h]] = FALSE] ELSE okSinceFail
  /\ UNCHANGED <<algorithm, roundRobinIdx, worker, probe, tasks, result, rrLog, okSinceOpen,
                 resp, setAlgo>>

\* lines 429-431: failures := atomic.AddInt64(&worker.ConsecFailures, 1) and the
\* comparison with the threshold; below it the handler answers 503 and returns
HandleTaskConsec(h) ==
  /\ pc[h] = "consec"
  /\ workers[worker[h]].ConsecFailures < MaxConsec
  /\ workers' = [workers EXCEPT ![worker[h]].ConsecFailures = @ + 1]
  /\ LET trip == workers[worker[h]].ConsecFailures + 1 >= circuitThreshold
     IN /\ pc' = [pc EXCEPT ![h] = IF trip THEN "trip" ELSE "idle"]
        /\ worker' = [worker EXCEPT ![h] = IF trip THEN @ ELSE Nil]
        /\ resp' = IF trip THEN resp ELSE StatusServiceUnavailable
  /\ okSinceFail' = IF workers[worker[h]].ConsecFailures + 1 >= circuitThreshold
                    THEN [okSinceFail EXCEPT ![worker[h]] = FALSE] ELSE okSinceFail
  /\ UNCHANGED <<algorithm, roundRobinIdx, probe, tasks, result, rrLog, okSinceOpen, setAlgo>>

\* lines 432-439: under lb.mu.Lock, worker.CircuitOpen = true; answer 503
HandleTaskTrip(h) ==
  /\ pc[h] = "trip"
  /\ workers' = [workers EXCEPT ![worker[h]].CircuitOpen = TRUE]
  /\ pc' = [pc EXCEPT ![h] = "idle"]
  /\ worker' = [worker EXCEPT ![h] = Nil]
  /\ okSinceOpen' = IF workers[worker[h]].CircuitOpen THEN okSinceOpen
                    ELSE [okSinceOpen EXCEPT ![worker[h]] = okSinceFail[worker[h]]]
  /\ resp' = StatusServiceUnavailable
  /\ UNCHANGED <<algorithm, roundRobinIdx, probe, tasks, result, rrLog, okSinceFail, setAlgo>>

\* HandleTaskSuccess leaving ConsecFailures as it is
HandleTaskSuccessNoReset(h, null) ==
  /\ pc[h] = "success"
  /\ pc' = [pc EXCEPT ![h] = "idle"]
  /\ worker' = [worker EXCEPT ![h] = Nil]
  /\ resp' = IF null THEN resp ELSE StatusOK
  /\ BroadcastStatusCalled(~null)
  /\ UNCHANGED <<workers, algorithm, roundRobinIdx, probe, tasks, result, rrLog, okSinceFail, okSinceOpen, setAlgo>>

\* lines 442-459: atomic.StoreInt64(&worker.ConsecFailures, 0); the worker's
\* body is decoded into the map result, an empty map taking its place when
\* Decode fails; result["worker"] = worker.Name; answer 200;
\* lb.BroadcastStatus().  null: the worker's body is the JSON null, which
\* Decode takes without an error and which leaves result the nil map; the
\* assignment of line 452 then panics, net/http recovers the panic and closes
\* the connection: no answer is written and line 459 is not reached
HandleTaskSuccess(h, null) ==
  /\ pc[h] = "success"
  /\ workers' = [workers EXCEPT ![worker[h]].ConsecFailures = 0]
  /\ pc' = [pc EXCEPT ![h] = "idle"]
  /\ worker' = [worker EXCEPT ![h] = Nil]
  /\ resp' = IF null THEN resp ELSE StatusOK
  /\ BroadcastStatusCalled(~null)
  /\ UNCHANGED <<algorithm, roundRobinIdx, probe, tasks, result, rrLog, okSinceFail, okSinceOpen, setAlgo>>

\* ------------------------------------------------------ the health prober
\* one tick of HealthCheck, lines 290-299: a checkWorker goroutine is started
\* for every worker, whatever goroutines are still running; max caps the
\* goroutines alive per worker
checkAllWorkersUpTo(max) ==
  /\ \A i \in 1..Len(workers) : ProbeCount(probe[i]) < max
  /\ probe' = [i \in 1..Len(workers) |-> [probe[i] EXCEPT !.get = @ + 1]]
  /\ UNCHANGED <<workers, algorithm, roundRobinIdx, pc, worker, tasks, result, rrLog, okSinceFail, okSinceOpen, resp, setAlgo>>

checkAllWorkers == checkAllWorkersUpTo(MaxProbes)

\* lines 303-312, !isHealthy: failures := atomic.AddInt64(&w.ConsecFailures, 1)
checkWorkerFail(i) ==
  /\ probe[i].get > 0
  /\ workers[i].ConsecFailures < MaxConsec
  /\ workers' = [workers EXCEPT ![i].ConsecFailures = @ + 1]
  /\ probe' = [probe EXCEPT ![i] =
                 IF workers[i].ConsecFailures + 1 >= circuitThreshold
                 THEN [@ EXCEPT !.get = @ - 1, !.open = @ + 1]
                 ELSE [@ EXCEPT !.get = @ - 1]]
  /\ okSinceFail' = IF workers[i].ConsecFailures + 1 >= circuitThreshold
                    THEN [okSinceFail EXCEPT ![i] = FALSE] ELSE okSinceFail
  /\ UNCHANGED <<algorithm, roundRobinIdx, pc, worker, tasks, result, rrLog, okSinceOpen, resp, setAlgo>>

\* lines 313-316: under lb.mu.Lock, CircuitOpen = true and Healthy = false
checkWorkerOpen(i) ==
  /\ probe[i].open > 0
  /\ workers' = [workers EXCEPT ![i].CircuitOpen = TRUE, ![i].Healthy = FALSE]
  /\ probe' = [probe EXCEPT ![i].open = @ - 1]
  /\ okSinceOpen' = IF workers[i].CircuitOpen THEN okSinceOpen
                    ELSE [okSinceOpen EXCEPT ![i] = okSinceFail[i]]
  /\ UNCHANGED okSinceFail
  /\ UNCHANGED <<algorithm, roundRobinIdx, pc, worker, tasks, result, rrLog, resp, setAlgo>>

\* lines 303-319, isHealthy: atomic.StoreInt64(&w.ConsecFailures, 0)
checkWorkerOk(i) ==
  /\ probe[i].get > 0
  /\ workers' = [workers EXCEPT ![i].ConsecFailures = 0]
  /\ probe' = [probe EXCEPT ![i] = [@ EXCEPT !.get = @ - 1, !.read = @ + 1]]
  /\ okSinceOpen' = [okSinceOpen EXCEPT ![i] = TRUE]
  /\ okSinceFail' = [okSinceFail EXCEPT ![i] = TRUE]
  /\ UNCHANGED <<algorithm, roundRobinIdx, pc, worker, tasks, result, rrLog, resp, setAlgo>>

\* lines 321-325: under lb.mu.RLock, needsUpdate := !w.Healthy || w.CircuitOpen
checkWorkerRead(i) ==
  /\ probe[i].read > 0
  /\ probe' = [probe EXCEPT ![i] =
                 IF ~workers[i].Healthy \/ workers[i].CircuitOpen
                 THEN [@ EXCEPT !.read = @ - 1, !.close = @ + 1]
                 ELSE [@ EXCEPT !.read = @ - 1]]
  /\ UNCHANGED <<workers, algorithm, roundRobinIdx, pc, worker, tasks, result, rrLog, okSinceFail, okSinceOpen, resp, setAlgo>>

\* lines 326-329: under lb.mu.Lock, Healthy = true and CircuitOpen = false
checkWorkerClose(i) ==
  /\ probe[i].close > 0
  /\ workers' = [workers EXCEPT ![i].Healthy = TRUE, ![i].CircuitOpen = FALSE]
  /\ probe' = [probe EXCEPT ![i].close = @ - 1]
  /\ UNCHANGED <<algorithm, roundRobinIdx, pc, worker, tasks, result, rrLog, okSinceFail, okSinceOpen, resp, setAlgo>>

\* --------------------------------------------------------- the HTTP surface
\* a request to /workers/{name}, lines 518-548: any method but PATCH is
\* answered 405.  name is EmptyName for PATCH /workers/; decoded is false when
\* json.Decode fails on the body.  After the 200 the handler calls
\* lb.BroadcastStatus().
handleWorker(method, name, decoded, enabled, weight) ==
  /\ IF method # "PATCH"
     THEN /\ resp' = StatusMethodNotAllowed
          /\ UNCHANGED workers
     ELSE IF name = EmptyName \/ ~decoded
     THEN /\ resp' = StatusBadRequest
          /\ UNCHANGED workers
     ELSE /\ workers' = UpdateWorker(workers, name, enabled, weight)
          /\ resp' = IF UpdateWorkerFound(workers, name) THEN StatusOK ELSE StatusNotFound
  /\ BroadcastStatusCalled(resp' = StatusOK)
  /\ UNCHANGED <<algorithm, roundRobinIdx, pc, worker, probe, tasks, result, rrLog,
                 okSinceFail, okSinceOpen, setAlgo>>

\* a SetAlgorithm that returns without storing the name
SetAlgorithmLost(algo) == setAlgo' = algo /\ UNCHANGED algorithm

\* SetAlgorithm, lines 244-248: under lb.mu.Lock, lb.algorithm = algo
SetAlgorithm(algo) == algorithm' = algo /\ setAlgo' = algo

\* handleAlgorithm storing the decoded name before it validates it
handleAlgorithmStoreFirst(decoded, algo) ==
  /\ IF decoded
     THEN /\ SetAlgorithm(algo)
          /\ resp' = IF algo \in validAlgorithms THEN StatusOK ELSE StatusBadRequest
     ELSE resp' = StatusBadRequest /\ UNCHANGED <<algorithm, setAlgo>>
  /\ BroadcastStatusCalled(resp' = StatusOK)
  /\ UNCHANGED <<workers, roundRobinIdx, pc, worker, probe, tasks, result, rrLog,
                 okSinceFail, okSinceOpen>>

\* PUT or POST /algorithm, lines 493-511.  decoded is false when json.Decode
\* fails on the body.  After the 200 the handler calls lb.BroadcastStatus().
handleAlgorithm(decoded, algo) ==
  /\ IF decoded /\ algo \in validAlgorithms
     THEN SetAlgorithm(algo) /\ resp' = StatusOK
     ELSE resp' = StatusBadRequest /\ UNCHANGED <<algorithm, setAlgo>>
  /\ BroadcastStatusCalled(resp' = StatusOK)
  /\ UNCHANGED <<workers, roundRobinIdx, pc, worker, probe, tasks, result, rrLog,
                 okSinceFail, okSinceOpen>>

\* the requests that get rejected (405, 400, 404) arrive while at most MaxEarly
\* requests to /task have been accepted
Early == tasks <= MaxEarly

Next ==
  \/ \E h \in Handlers : Early /\ HandleTaskMethod(h) /\ UNCHANGED outside
  \/ \E h \in Handlers : HandleTaskSelect(h) /\ UNCHANGED outside
  \/ \E h \in Handlers : HandleTaskIncLoad(h) /\ UNCHANGED outside
  \/ \E h \in Handlers : HandleTaskIncTotal(h) /\ UNCHANGED outside
  \/ \E h \in Handlers, ok \in BOOLEAN : HandleTaskResponse(h, ok) /\ UNCHANGED outside
  \/ \E h \in Handlers : HandleTaskFail(h) /\ UNCHANGED outside
  \/ \E h \in Handlers : HandleTaskConsec(h) /\ UNCHANGED outside
  \/ \E h \in Handlers : HandleTaskTrip(h) /\ UNCHANGED outside
  \/ \E h \in Handlers, null \in BOOLEAN :
       CallFree /\ HandleTaskSuccess(h, null) /\ UNCHANGED beyond
  \/ BroadcastLock(TRUE) /\ UNCHANGED tail
  \/ checkAllWorkers /\ UNCHANGED outside
  \/ \E i \in 1..Len(workers) : checkWorkerFail(i) /\ UNCHANGED outside
  \/ \E i \in 1..Len(workers) : checkWorkerOpen(i) /\ UNCHANGED outside
  \/ \E i \in 1..Len(workers) : checkWorkerOk(i) /\ UNCHANGED outside
  \/ \E i \in 1..Len(workers) : checkWorkerRead(i) /\ UNCHANGED outside
  \/ \E i \in 1..Len(workers) : checkWorkerClose(i) /\ UNCHANGED outside
  \/ \E name \in 1..Len(workers), enabled \in Opt(BOOLEAN),
        weight \in Opt(0..MaxPatchWeight) :
       CallFree /\ handleWorker("PATCH", name, TRUE, enabled, weight) /\ UNCHANGED beyond
  \/ \E name \in {EmptyName, 0} :
       Early /\ CallFree /\ handleWorker("PATCH", name, TRUE, <<TRUE>>, <<>>) /\ UNCHANGED beyond
  \/ \E name \in 1..Len(workers) :
       Early /\ CallFree /\ handleWorker("PATCH", name, FALSE, <<>>, <<>>) /\ UNCHANGED beyond
  \/ \E method \in {"GET"}, name \in 1..Len(workers) :
       Early /\ CallFree /\ handleWorker(method, name, TRUE, <<TRUE>>, <<>>) /\ UNCHANGED beyond
  \/ \E algo \in validAlgorithms :
       CallFree /\ handleAlgorithm(TRUE, algo) /\ UNCHANGED beyond
  \/ \E algo \in AlgorithmNames \ validAlgorithms :
       Early /\ CallFree /\ handleAlgorithm(TRUE, algo) /\ UNCHANGED beyond
  \/ Early /\ CallFree /\ handleAlgorithm(FALSE, "") /\ UNCHANGED beyond

Spec == Init /\ [][Next]_vars

\* ================================================================ claims
InFlight(i) == {h \in Handlers : worker[h] = i /\ pc[h] \in {"incTotal", "post"}}

\* C1: the CurrentLoad of every worker equals the number of /task forwards to
\* it that have begun (line 413) and not yet ended (line 425); so it is never
\* negative and is back at its old value once the handlers have returned,
\* whatever the outcome of the forward.
C1_CurrentLoadIsInFlight ==
  \A i \in 1..Len(workers) :
    /\ workers[i].CurrentLoad = Cardinality(InFlight(i))
    /\ workers[i].CurrentLoad >= 0

\* a forward is in flight while another one has failed and been accounted
C1_Witness ==
  /\ workers[1].CurrentLoad = 1
  /\ workers[1].FailedRequests >= 1
  /\ \E h \in Handlers : pc[h] = "post"
  /\ \E h \in Handlers : pc[h] = "idle"

\* C2: the worker a selection returns is enabled, healthy and has its circuit
\* closed in the state in which the selection is made, under every algorithm
\* and every interleaving with PATCH, probe outcomes and forward outcomes.
C2_SelectsOnlyEligible ==
  [][\A h \in Handlers :
       (pc[h] = "idle" /\ pc'[h] = "incLoad") => Eligible(workers[worker'[h]])]_vars

\* a worker was selected and has become ineligible before the forward began
C2_Witness ==
  \E h \in Handlers : pc[h] = "incLoad" /\ ~Eligible(workers[worker[h]])

\* outcome recordings that have counted a failure at or above the threshold and
\* have not yet set the flag
TripCount(i) ==
  probe[i].open + Cardinality({h \in Handlers : worker[h] = i /\ pc[h] = "trip"})

\* C3: a failure, of a probe or of a forward, that brings ConsecFailures to
\* circuitThreshold or above (the counter is reset only by a success) commits
\* its recording to set CircuitOpen; when the recording ends CircuitOpen is
\* true; and from then on no SelectWorker returns the worker until it
\* recovers, that is until a success (a probe answered 200, a forward answered
\* below 500) has been observed for it after the trip: in the state a step
\* leads to, SelectWorker returns no worker that has tripped and had no
\* success since, whatever rand.Intn draws.
C3_TripUntilRecovery ==
  [][\A i \in 1..Len(workers) :
       /\ (/\ workers'[i].ConsecFailures > workers[i].ConsecFailures
           /\ workers'[i].ConsecFailures >= circuitThreshold)
          => TripCount(i)' = TripCount(i) + 1
       /\ TripCount(i)' < TripCount(i) => workers'[i].CircuitOpen
       /\ ~okSinceOpen'[i]
          => \A r \in Draws(workers', algorithm') :
               SelectWorker(workers', algorithm', roundRobinIdx', r) # i]_vars

\* C4: every success signal leaves the worker Closed/Healthy: a forward
\* answered below 500 ends with ConsecFailures = 0, Healthy and not
\* CircuitOpen; a probe answered 200 resets ConsecFailures and ends with
\* Healthy and not CircuitOpen.
C4_SuccessClosesCircuit ==
  [][/\ \A h \in Handlers :
          (pc[h] = "success" /\ pc'[h] = "idle")
          => /\ workers'[worker[h]].ConsecFailures = 0
             /\ workers'[worker[h]].Healthy
             /\ ~workers'[worker[h]].CircuitOpen
     /\ \A i \in 1..Len(workers) :
          /\ probe'[i].read > probe[i].read => workers'[i].ConsecFailures = 0
          /\ probe'[i].read + probe'[i].close < probe[i].read + probe[i].close
             => workers'[i].Healthy /\ ~workers'[i].CircuitOpen]_vars

\* C5: a worker whose circuit has opened is not eligible as long as no
\* success (a probe answered 200, a forward answered below 500) has been
\* observed for it since the circuit opened.
C5_OpenUntilSuccess ==
  \A i \in 1..Len(workers) : ~okSinceOpen[i] => ~Eligible(workers[i])

\* ====================================== the selector applied to registries
\* The Worker states a registry can hold while the dispatcher runs: Healthy is
\* false only together with CircuitOpen (lines 313-316 set both); Weight 0
\* comes from AddWorker(.., 0, ..).  The forwards that make up CurrentLoad are
\* not represented: the selector does not read them.
WorkerStates ==
  {[Weight |-> wt, Healthy |-> f[1], Enabled |-> e, CircuitOpen |-> f[2],
    CurrentLoad |-> l, TotalRequests |-> l, FailedRequests |-> 0,
    ConsecFailures |-> 0] :
     wt \in 0..MaxWeight, e \in BOOLEAN, l \in 0..MaxLoad,
     f \in {<<TRUE, FALSE>>, <<TRUE, TRUE>>, <<FALSE, TRUE>>}}

Registries == UNION {[1..n -> WorkerStates] : n \in 0..SelWorkers}

SelInit ==
  /\ workers \in Registries
  /\ algorithm \in validAlgorithms
  /\ setAlgo = algorithm
  /\ resp = 0
  /\ roundRobinIdx = 0
  /\ pc = [h \in Handlers |-> "idle"]
  /\ worker = [h \in Handlers |-> Nil]
  /\ probe = [i \in 1..Len(workers) |-> NoProbe]
  /\ tasks = 0
  /\ result = Nil
  /\ rrLog = <<>>
  /\ okSinceFail = [i \in 1..Len(workers) |-> TRUE]
  /\ okSinceOpen = [i \in 1..Len(workers) |-> TRUE]
  /\ OutsideInit

\* a direct call of lb.SelectWorker(), lines 134-152
CallSelectWorker ==
  /\ roundRobinIdx < MaxCursor
  /\ \E r \in Draws(workers, algorithm) :
       result' = SelectWorker(workers, algorithm, roundRobinIdx, r)
  /\ roundRobinIdx' = NextIdx(workers, algorithm, roundRobinIdx)
  /\ UNCHANGED <<workers, algorithm, pc, worker, probe, tasks, okSinceFail, okSinceOpen, resp, setAlgo>>

SelNext == CallSelectWorker /\ UNCHANGED <<rrLog, outside>>

SpecSel == SelInit /\ [][SelNext]_vars

\* ------------------------------------------- round-robin over a fresh pool
AllEligible(ws) == EligibleSet(ws) = 1..Len(ws)

RRInit ==
  /\ workers = Registered(SelWorkers)
  /\ algorithm = "round-robin"
  /\ setAlgo = algorithm
  /\ resp = 0
  /\ roundRobinIdx = 0
  /\ pc = [h \in Handlers |-> "idle"]
  /\ worker = [h \in Handlers |-> Nil]
  /\ probe = [i \in 1..SelWorkers |-> NoProbe]
  /\ tasks = 0
  /\ result = Nil
  /\ rrLog = <<>>
  /\ okSinceFail = [i \in 1..SelWorkers |-> TRUE]
  /\ okSinceOpen = [i \in 1..SelWorkers |-> TRUE]
  /\ OutsideInit

\* a direct call of lb.SelectWorker(); the history keeps the selections made
\* under round-robin with every registered worker eligible
RRSelect ==
  /\ CallSelectWorker
  /\ rrLog' = IF algorithm = "round-robin" /\ AllEligible(workers)
              THEN Append(rrLog, result') ELSE <<>>

\* a direct call of lb.UpdateWorker(name, enabled, weight); a new window of
\* selections starts
RRPatch(name, enabled, weight) ==
  /\ workers' = UpdateWorker(workers, name, enabled, weight)
  /\ rrLog' = <<>>
  /\ UNCHANGED <<algorithm, roundRobinIdx, pc, worker, probe, tasks, result, okSinceFail,
                 okSinceOpen, resp, setAlgo>>

\* a direct call of lb.SetAlgorithm(algo); a new window of selections starts
RRAlgorithm(algo) ==
  /\ SetAlgorithm(algo)
  /\ rrLog' = <<>>
  /\ UNCHANGED <<workers, roundRobinIdx, pc, worker, probe, tasks, result, okSinceFail,
                 okSinceOpen, resp>>

RRNext ==
  \/ RRSelect /\ UNCHANGED outside
  \/ \E name \in 0..Len(workers), enabled \in Opt(BOOLEAN), weight \in Opt(-1..MaxWeight) :
       RRPatch(name, enabled, weight) /\ UNCHANGED outside
  \/ \E algo \in validAlgorithms : RRAlgorithm(algo) /\ UNCHANGED outside

SpecRR == RRInit /\ [][RRNext]_vars

\* a direct call of lb.SelectWorker(); the history keeps the selections made
\* under round-robin since the registry or the algorithm last changed,
\* whatever the eligible workers are
RRAnySelect ==
  /\ CallSelectWorker
  /\ rrLog' = IF algorithm = "round-robin" THEN Append(rrLog, result') ELSE <<>>

RRAnyNext ==
  \/ RRAnySelect /\ UNCHANGED outside
  \/ \E name \in 0..Len(workers), enabled \in Opt(BOOLEAN) :
       RRPatch(name, enabled, <<>>) /\ UNCHANGED outside
  \/ \E algo \in {"round-robin", "random"} : RRAlgorithm(algo) /\ UNCHANGED outside

\* the selector called directly, with workers enabled and disabled between
\* the calls
SpecRRAny == RRInit /\ [][RRAnyNext]_vars

\* ------------------------------------------------- claims on the selector
\* C6: SelectWorker returns none exactly when no registered worker is
\* eligible, under each of the four algorithms and every value rand.Intn can
\* return (empty registry included; the weights are >= 0).
C6_NoneIffNoEligible ==
  \A algo \in validAlgorithms : \A r \in Draws(workers, algo) :
    (SelectWorker(workers, algo, roundRobinIdx, r) = Nil) <=> (EligibleSet(workers) = {})

\* weighted was applied to a registry whose eligible workers all have weight
\* 0, next to an ineligible worker, and returned a worker
C6_Witness ==
  /\ algorithm = "weighted"
  /\ Len(workers) = SelWorkers
  /\ EligibleSet(workers) # {}
  /\ EligibleSet(workers) # 1..Len(workers)
  /\ TotalWeight(workers, 1) = 0
  /\ result \in EligibleSet(workers)

\* C7: under round-robin with all N registered workers eligible and no change
\* of eligibility, every window of k*N consecutive selections (in the order of
\* the cursor values) returns each worker exactly k times.  The cursor values
\* are those below MaxCursor; the uint64 cursor does not wrap within them.
C7_RoundRobinWindows ==
  LET n == Len(workers)
  IN \A s \in 1..Len(rrLog) : \A k \in 1..Len(rrLog) :
       s + k * n - 1 <= Len(rrLog)
       => \A w \in 1..n :
            Cardinality({j \in s..(s + k * n - 1) : rrLog[j] = w}) = k

\* three full rounds have been selected with every worker eligible
C7_Witness == Len(rrLog) = 3 * SelWorkers /\ AllEligible(workers)

\* C39: under round-robin, with the eligible workers unchanged and at least
\* one of them, every N consecutive selections (N the number of registered
\* workers, in the order of the cursor values) return every eligible worker
\* at least once, and return eligible workers only.
C39_NoEligibleStarved ==
  LET n == Len(workers)
  IN \A s \in 1..Len(rrLog) :
       (EligibleSet(workers) # {} /\ s + n - 1 <= Len(rrLog))
       => /\ \A w \in EligibleSet(workers) : \E j \in s..(s + n - 1) : rrLog[j] = w
          /\ \A j \in s..(s + n - 1) : rrLog[j] \in EligibleSet(workers)

\* two rounds were selected with one worker disabled: of the two others one
\* was returned twice as often as the other
C39_Witness ==
  /\ Len(rrLog) = 2 * SelWorkers
  /\ Cardinality(EligibleSet(workers)) = SelWorkers - 1
  /\ \E v, w \in EligibleSet(workers) :
       Cardinality({j \in 1..Len(rrLog) : rrLog[j] = v})
         = 2 * Cardinality({j \in 1..Len(rrLog) : rrLog[j] = w})

\* C8: least-connections returns an eligible worker of minimal CurrentLoad,
\* and of several minimal ones the one registered first.
C8_LeastConnectionsMinFirst ==
  LET w == SelectWorker(workers, "least-connections", roundRobinIdx, 0)
  IN EligibleSet(workers) # {}
     => /\ w \in EligibleSet(workers)
        /\ \A j \in EligibleSet(workers) :
             /\ workers[w].CurrentLoad <= workers[j].CurrentLoad
             /\ workers[j].CurrentLoad = workers[w].CurrentLoad => w <= j

\* least-connections skipped a more loaded first worker and returned the
\* second, which ties with the third
C8_Witness ==
  /\ algorithm = "least-connections"
  /\ EligibleSet(workers) = {1, 2, 3}
  /\ workers[1].CurrentLoad > workers[2].CurrentLoad
  /\ workers[3].CurrentLoad = workers[2].CurrentLoad
  /\ result = 2

\* the weight of the eligible workers among the first i
CumulativeWeight(ws, i) == TotalWeight(SubSeq(ws, 1, i), 1)

Pool136 == <<Worker(1), Worker(3), Worker(6)>>

\* C9: under weighted with eligible weights summing to W > 0, every draw r in
\* 0..W-1 returns the first eligible worker whose cumulative weight exceeds r,
\* so exactly Weight_i of the W draws return worker i; weights 1, 3, 6 give
\* 1, 3 and 6 of 10 draws.
C9_WeightedCumulative ==
  LET W == TotalWeight(workers, 1)
      pick(r) == SelectWorker(workers, "weighted", roundRobinIdx, r)
  IN /\ W > 0 =>
          /\ \A r \in 0..(W - 1) :
               /\ pick(r) \in EligibleSet(workers)
               /\ CumulativeWeight(workers, pick(r)) > r
               /\ \A j \in EligibleSet(workers) :
                    j < pick(r) => CumulativeWeight(workers, j) <= r
          /\ \A i \in EligibleSet(workers) :
               Cardinality({r \in 0..(W - 1) : pick(r) = i}) = workers[i].Weight
     /\ \A i \in 1..3 :
          Cardinality({r \in 0..9 : SelectWorker(Pool136, "weighted", 0, r) = i})
            = Pool136[i].Weight

\* weighted returned the third of three eligible workers of positive weight
C9_Witness ==
  /\ algorithm = "weighted"
  /\ EligibleSet(workers) = {1, 2, 3}
  /\ \A i \in 1..3 : workers[i].Weight > 0
  /\ workers[2].Weight # workers[3].Weight
  /\ result = 3

\* C10: under weighted an eligible worker of weight 0 is never returned while
\* some eligible worker has a positive weight; when every eligible worker has
\* weight 0 the first eligible worker in registration order is returned.
C10_ZeroWeight ==
  \A r \in Draws(workers, "weighted") :
    LET w == SelectWorker(workers, "weighted", roundRobinIdx, r)
        E == EligibleSet(workers)
    IN /\ (\E j \in E : workers[j].Weight > 0) => (w \in E /\ workers[w].Weight > 0)
       /\ (E # {} /\ \A j \in E : workers[j].Weight = 0)
          => (w \in E /\ \A j \in E : w <= j)

\* weighted passed over an eligible first worker of weight 0
C10_Witness ==
  /\ algorithm = "weighted"
  /\ Len(workers) >= 2
  /\ Eligible(workers[1]) /\ workers[1].Weight = 0
  /\ result # Nil /\ result # 1
  /\ workers[result].Weight > 0

\* C30: on the freshly built dispatcher with all N workers eligible, the i-th
\* round-robin selection since the start returns the worker registered at
\* position (i-1) mod N (counted from 0): the first worker first, then the
\* second, and so on.  Len(rrLog) = roundRobinIdx says that every selection so
\* far was one of those.
C30_RoundRobinFromFirst ==
  Len(rrLog) = roundRobinIdx
  => \A i \in 1..Len(rrLog) : rrLog[i] = ((i - 1) % Len(workers)) + 1

\* ------------------------------------------------ claims on the registry
\* C11: once SetAlgorithm(A) has returned, the registry holds A, and every
\* selection made before the next change is the selection of A: it returns a
\* worker A can return on the registry and moves the cursor as A does, for
\* every previous algorithm.
C11_SelectionUsesSetAlgorithm ==
  [][/\ algorithm' = setAlgo'
     /\ (result' # result \/ roundRobinIdx' # roundRobinIdx)
        => /\ roundRobinIdx' = NextIdx(workers, setAlgo, roundRobinIdx)
           /\ \E r \in Draws(workers, setAlgo) :
                result' = SelectWorker(workers, setAlgo, roundRobinIdx, r)]_vars

\* after one round-robin selection the algorithm was set to least-connections
\* and the next selection returned the first worker without moving the cursor
C11_Witness ==
  /\ setAlgo = "least-connections"
  /\ roundRobinIdx = 1
  /\ result = 1
  /\ AllEligible(workers)

\* C12: the algorithm of the registry is one of the four known names in every
\* reachable state, the state main() builds from LB_ALGORITHM included.
C12_AlgorithmValid == algorithm \in validAlgorithms

\* C13: UpdateWorker on a registered name sets Enabled when it is given and
\* Weight when the given value is > 0, changes no other field and no other
\* worker, and reports found; on an unknown name it reports not-found and
\* changes nothing.
C13_UpdateWorkerFrame ==
  \A name \in 0..(Len(workers) + 1), enabled \in Opt(BOOLEAN), weight \in Opt(-1..MaxWeight) :
    LET ws == UpdateWorker(workers, name, enabled, weight)
    IN /\ Len(ws) = Len(workers)
       /\ UpdateWorkerFound(workers, name) <=> name \in 1..Len(workers)
       /\ ~UpdateWorkerFound(workers, name) => ws = workers
       /\ UpdateWorkerFound(workers, name) =>
            /\ ws[name].Enabled = IF enabled = <<>> THEN workers[name].Enabled
                                  ELSE enabled[1]
            /\ ws[name].Weight = IF weight # <<>> /\ weight[1] > 0 THEN weight[1]
                                 ELSE workers[name].Weight
            /\ [ws[name] EXCEPT !.Enabled = workers[name].Enabled,
                                !.Weight = workers[name].Weight] = workers[name]
            /\ \A j \in 1..Len(workers) : j # name => ws[j] = workers[j]

\* the second worker was disabled and given weight 1; the others are as
\* registered
C13_Witness ==
  /\ ~workers[2].Enabled
  /\ workers[2].Weight = 1
  /\ workers[2].Weight # workerConfigs[2]
  /\ workers[1] = Worker(workerConfigs[1])
  /\ workers[3] = Worker(workerConfigs[3])

\* ----------------------------------------------- claims on the HTTP surface
\* the handlers that take the step from pc value a to pc value b
Moves(a, b) == {h \in Handlers : pc[h] = a /\ pc'[h] = b}

C15_NoWorkerNoEffect ==
  [][(tasks' # tasks /\ EligibleSet(workers) = {})
     => /\ resp' = StatusServiceUnavailable
        /\ workers' = workers
        /\ pc' = pc
        /\ worker' = worker]_vars

\* a task was answered 503 while the only worker was disabled and untouched
C15_Witness ==
  /\ tasks = 1
  /\ resp = StatusServiceUnavailable
  /\ ~workers[1].Enabled
  /\ workers[1] = [Worker(workerConfigs[1]) EXCEPT !.Enabled = FALSE]

\* C16: a request answered 400 (malformed JSON, unknown algorithm, empty worker
\* name) changes neither the algorithm nor any worker nor any counter; the
\* algorithm changes only to a known name with a 200, and PATCH changes a
\* worker only with a 200.
C16_RejectedNoEffect ==
  [][/\ (resp' = StatusBadRequest /\ pc' = pc /\ probe' = probe)
        => UNCHANGED <<workers, algorithm, roundRobinIdx, worker, tasks>>
     /\ algorithm' # algorithm
        => algorithm' \in validAlgorithms /\ resp' = StatusOK
     /\ (workers' # workers /\ pc' = pc /\ probe' = probe) => resp' = StatusOK]_vars

\* a request was answered 400 after the algorithm and the worker were changed
C16_Witness ==
  /\ resp = StatusBadRequest
  /\ algorithm = "weighted"
  /\ ~workers[1].Enabled
  /\ tasks = 0

\* C17: TotalRequests of a worker never decreases; it grows by exactly one
\* with every forward that begins on the worker (each handler passes line 414
\* once between its selection and its POST) and in no other step, the 405 and
\* the 503 for no worker included.
C17_TotalRequestsCountsForwards ==
  [][/\ \A i \in 1..Len(workers) :
          /\ workers'[i].TotalRequests >= workers[i].TotalRequests
          /\ workers'[i].TotalRequests = workers[i].TotalRequests
               + Cardinality({h \in Moves("incTotal", "post") : worker[h] = i})
     /\ \A h \in Handlers :
          /\ pc[h] = "idle" => pc'[h] \in {"idle", "incLoad"}
          /\ pc[h] = "incLoad" => pc'[h] \in {"incLoad", "incTotal"}
          /\ pc[h] = "incTotal" => pc'[h] \in {"incTotal", "post"}
          /\ pc'[h] = "post" => pc[h] \in {"incTotal", "post"}]_vars

\* of three tasks two were forwarded and one found no worker
C17_Witness ==
  /\ tasks = 3
  /\ workers[1].TotalRequests = 2
  /\ resp = StatusServiceUnavailable
  /\ \A h \in Handlers : pc[h] = "idle"
  /\ workers[1].FailedRequests = 0

\* C18: FailedRequests never exceeds TotalRequests, for every worker and every
\* interleaving of concurrent forwards.
C18_FailedAtMostTotal ==
  \A i \in 1..Len(workers) : workers[i].FailedRequests <= workers[i].TotalRequests

\* every forward so far has failed, while another handler is between its
\* selection and its count
C18_Witness ==
  /\ workers[1].TotalRequests = 2
  /\ workers[1].FailedRequests = 2
  /\ \E h \in Handlers : pc[h] = "incTotal"

\* C19: a task is forwarded at most once: the handler sends one POST, to the
\* worker it selected, and after the outcome it only accounts and returns; a
\* new forward needs a new request.
C19_AtMostOnce ==
  [][\A h \in Handlers :
       /\ pc[h] \in {"fail", "consec", "trip", "success"}
          => pc'[h] \in {"fail", "consec", "trip", "success", "idle"}
       /\ (pc[h] # "idle" /\ pc'[h] # "idle") => worker'[h] = worker[h]
       /\ (pc'[h] = "incLoad" /\ pc[h] # "incLoad")
          => pc[h] = "idle" /\ tasks' = tasks + 1
       /\ pc'[h] = "post" => pc[h] \in {"incTotal", "post"}]_vars

\* the only task failed and was answered 503; the worker is still eligible
\* and has received one request
C19_Witness ==
  /\ tasks = 1
  /\ resp = StatusServiceUnavailable
  /\ workers[1].TotalRequests = 1
  /\ workers[1].FailedRequests = 1
  /\ Eligible(workers[1])
  /\ \A h \in Handlers : pc[h] = "idle"

\* C29: the two failure signals act alike on the breaker: the recording of a
\* failure that reached circuitThreshold, of a forward (lines 431-435) as of a
\* probe (lines 312-317), ends with CircuitOpen true and Healthy false.
C29_FailureSignalsAlike ==
  [][\A i \in 1..Len(workers) :
       TripCount(i)' < TripCount(i)
       => workers'[i].CircuitOpen /\ ~workers'[i].Healthy]_vars

\* C33: a step of a /task handler changes nothing but the counters of a
\* worker and the round-robin cursor: it takes no lb.mu.Lock, so it leaves
\* Enabled, Healthy, CircuitOpen and Weight of every worker and the algorithm
\* as they are.
C33_ForwardTouchesCountersOnly ==
  [][(\E h \in Handlers : pc'[h] # pc[h])
     => /\ algorithm' = algorithm
        /\ Len(workers') = Len(workers)
        /\ \A i \in 1..Len(workers) :
             /\ workers'[i].Enabled = workers[i].Enabled
             /\ workers'[i].Healthy = workers[i].Healthy
             /\ workers'[i].CircuitOpen = workers[i].CircuitOpen
             /\ workers'[i].Weight = workers[i].Weight]_vars

\* no /task handler and no probe stands between the outcome it has received
\* for worker i and the end of its recording
Quiescent(i) ==
  /\ \A h \in Handlers :
       worker[h] = i => pc[h] \notin {"fail", "consec", "trip", "success"}
  /\ probe[i].read = 0
  /\ probe[i].close = 0
  /\ probe[i].open = 0

\* C34: whenever no recording of an outcome is under way for a worker, its
\* circuit is open if and only if its ConsecFailures is at circuitThreshold
\* or above.
C34_OpenIffThreshold ==
  \A i \in 1..Len(workers) :
    Quiescent(i)
    => (workers[i].CircuitOpen <=> workers[i].ConsecFailures >= circuitThreshold)

\* C35: a forward begins (line 413, the first of the two increments that
\* precede the POST) only on a worker that is eligible at that moment.
C35_ForwardBeginsOnEligible ==
  [][\A h \in Handlers :
       (pc[h] = "incLoad" /\ pc'[h] = "incTotal")
       => Eligible(workers[worker[h]])]_vars

\* ===================================================== the prober alone
ProbeInit ==
  /\ workers = Registered(ProbeWorkers)
  /\ algorithm = "round-robin"
  /\ setAlgo = algorithm
  /\ resp = 0
  /\ roundRobinIdx = 0
  /\ pc = [h \in Handlers |-> "idle"]
  /\ worker = [h \in Handlers |-> Nil]
  /\ probe = [i \in 1..ProbeWorkers |-> NoProbe]
  /\ tasks = 0
  /\ result = Nil
  /\ rrLog = <<>>
  /\ okSinceFail = [i \in 1..ProbeWorkers |-> TRUE]
  /\ okSinceOpen = [i \in 1..ProbeWorkers |-> TRUE]
  /\ OutsideInit

\* the ticks of HealthCheck and the steps of the goroutines they start
ProbeNext ==
  \/ checkAllWorkersUpTo(MaxInFlight) /\ UNCHANGED outside
  \/ \E i \in 1..Len(workers) : checkWorkerFail(i) /\ UNCHANGED outside
  \/ \E i \in 1..Len(workers) : checkWorkerOpen(i) /\ UNCHANGED outside
  \/ \E i \in 1..Len(workers) : checkWorkerOk(i) /\ UNCHANGED outside
  \/ \E i \in 1..Len(workers) : checkWorkerRead(i) /\ UNCHANGED outside
  \/ \E i \in 1..Len(workers) : checkWorkerClose(i) /\ UNCHANGED outside

SpecProbe == ProbeInit /\ [][ProbeNext]_vars

\* C20: for each worker at most one health probe is in flight (its GET
\* /health not yet answered) at any time.
C20_OneProbeInFlight == \A i \in 1..Len(workers) : probe[i].get <= 1

\* ================================================ GetStatus beside forwards
\* GetStatus, lines 251-274, step by step.  The flags, the weight and the
\* algorithm are written under lb.mu.Lock only, so they keep their values from
\* GetStatusLock to GetStatusReturn; the three counters are written by
\* atomic.AddInt64 outside the lock, so each atomic.LoadInt64 is a step.
\* The history keeps the reports of the instants of the call that agree with
\* what the call has read so far.

\* lines 252-254: lb.mu.RLock(), the slice is made
GetStatusLock ==
  /\ status.pc \in {"idle", "done"}
  /\ status' = [NoStatus EXCEPT !.pc = IF Len(workers) = 0 THEN "ret" ELSE "load",
                              !.i = 1]
  /\ seen' = {Report(workers, algorithm)}
  /\ UNCHANGED notStatus

\* line 262: atomic.LoadInt64(&w.CurrentLoad)
GetStatusLoad ==
  /\ status.pc = "load"
  /\ status' = [status EXCEPT !.pc = "total", !.load = workers[status.i].CurrentLoad]
  /\ seen' = {r \in seen : r.workers[status.i].currentLoad = status'.load}
  /\ UNCHANGED notStatus

\* line 264: atomic.LoadInt64(&w.TotalRequests)
GetStatusTotal ==
  /\ status.pc = "total"
  /\ status' = [status EXCEPT !.pc = "failed", !.total = workers[status.i].TotalRequests]
  /\ seen' = {r \in seen : r.workers[status.i].totalRequests = status'.total}
  /\ UNCHANGED notStatus

\* lines 265-267: atomic.LoadInt64(&w.FailedRequests); workers[i] is stored and
\* the loop goes to the next worker
GetStatusFailed ==
  /\ status.pc = "failed"
  /\ status' = [status EXCEPT
                  !.pc = IF status.i = Len(workers) THEN "ret" ELSE "load",
                  !.i = @ + 1,
                  !.workers = Append(@, [ReportWorker(workers[status.i]) EXCEPT
                                           !.currentLoad = status.load,
                                           !.totalRequests = status.total])]
  /\ seen' = {r \in seen : r.workers[status.i] = status'.workers[status.i]}
  /\ UNCHANGED notStatus

\* lines 270-273: the map is returned with lb.algorithm; lb.mu.RUnlock()
GetStatusReturn ==
  /\ status.pc = "ret"
  /\ status' = [status EXCEPT !.pc = "done", !.algorithm = algorithm]
  /\ seen' = {r \in seen : r.algorithm = status'.algorithm}
  /\ UNCHANGED notStatus

\* the history of a step of the dispatcher taken beside GetStatus
BesideCall ==
  /\ seen' = IF Reading THEN seen \cup {Report(workers', algorithm')} ELSE seen
  /\ UNCHANGED <<status, wsClients, conn, broadcast, taken, svcVars, run, tail>>

\* the same for a step that does not end in lb.BroadcastStatus()
Beside == BesideCall /\ UNCHANGED <<waiting, changedAt>>

StatusInit ==
  /\ workers = Registered(NumWorkers)
  /\ algorithm = "round-robin"
  /\ setAlgo = algorithm
  /\ resp = 0
  /\ roundRobinIdx = 0
  /\ pc = [h \in Handlers |-> "idle"]
  /\ worker = [h \in Handlers |-> Nil]
  /\ probe = [i \in 1..NumWorkers |-> NoProbe]
  /\ tasks = 0
  /\ result = Nil
  /\ rrLog = <<>>
  /\ okSinceFail = [i \in 1..NumWorkers |-> TRUE]
  /\ okSinceOpen = [i \in 1..NumWorkers |-> TRUE]
  /\ OutsideInit

\* GET /status beside the /task handlers and the prober; a step that takes
\* lb.mu.Lock waits while GetStatus holds the read lock
StatusNext ==
  \/ GetStatusLock
  \/ GetStatusLoad
  \/ GetStatusTotal
  \/ GetStatusFailed
  \/ GetStatusReturn
  \/ \E h \in 1..StatusHandlers : HandleTaskSelect(h) /\ Beside
  \/ \E h \in 1..StatusHandlers : HandleTaskIncLoad(h) /\ Beside
  \/ \E h \in 1..StatusHandlers : HandleTaskIncTotal(h) /\ Beside
  \/ \E h \in 1..StatusHandlers, ok \in BOOLEAN : HandleTaskResponse(h, ok) /\ Beside
  \/ \E h \in 1..StatusHandlers : HandleTaskFail(h) /\ Beside
  \/ \E h \in 1..StatusHandlers : HandleTaskConsec(h) /\ Beside
  \/ \E h \in 1..StatusHandlers : ~Reading /\ HandleTaskTrip(h) /\ Beside
  \/ \E h \in 1..StatusHandlers, null \in BOOLEAN :
       CallFree /\ HandleTaskSuccess(h, null) /\ BesideCall
  \/ BroadcastLock(TRUE) /\ UNCHANGED tail
  \/ checkAllWorkers /\ Beside
  \/ \E i \in 1..Len(workers) : checkWorkerFail(i) /\ Beside
  \/ \E i \in 1..Len(workers) : ~Reading /\ checkWorkerOpen(i) /\ Beside
  \/ \E i \in 1..Len(workers) : checkWorkerOk(i) /\ Beside
  \/ \E i \in 1..Len(workers) : checkWorkerRead(i) /\ Beside
  \/ \E i \in 1..Len(workers) : ~Reading /\ checkWorkerClose(i) /\ Beside

SpecStatus == StatusInit /\ [][StatusNext]_vars

\* C21: the map a GetStatus call returns is the report of one instant of the
\* call: the algorithm and every reported field of every worker had the
\* returned values together at some moment between its RLock and its RUnlock.
C21_SnapshotOfOneInstant ==
  status.pc = "done"
  => [algorithm |-> status.algorithm, workers |-> status.workers] \in seen

\* C36: in the map a GetStatus call returns, every worker's failedRequests is
\* at most its totalRequests.
C36_ReportedFailedAtMostTotal ==
  status.pc = "done"
  => \A i \in 1..Len(status.workers) :
       status.workers[i].failedRequests <= status.workers[i].totalRequests

\* ====================================================== the worker service
\* handleTask of src/workers/go/main.go, lines 154-245.  Decoding, the sleep
\* and the answers touch no shared variable, so the invalid body (400), the
\* simulated failure (500) and the success (200) are the one step SvcWork.

\* lines 163-175: the token goes into requestQueue, or the queue is full and
\* the request is answered 503
SvcArrive(t) ==
  /\ svcPc[t] = "idle"
  /\ activeRequests > -MaxDrift
  /\ IF requestQueue < QueueSize
     THEN /\ requestQueue' = requestQueue + 1
          /\ svcPc' = [svcPc EXCEPT ![t] = "inc"]
     ELSE UNCHANGED <<requestQueue, svcPc>>
  /\ UNCHANGED <<activeRequests, notSvc>>

\* lines 178-185: current := atomic.AddInt32(&activeRequests, 1), the decrement
\* is deferred, and current is compared with MaxConcurrentRequests
SvcInc(t) ==
  /\ svcPc[t] = "inc"
  /\ activeRequests' = activeRequests + 1
  /\ svcPc' = [svcPc EXCEPT ![t] = IF activeRequests + 1 > MaxConcurrentRequests
                                   THEN "over" ELSE "work"]
  /\ UNCHANGED <<requestQueue, notSvc>>

\* lines 186-194: atomic.AddInt32(&activeRequests, -1), answer 503, return
SvcOver(t) ==
  /\ svcPc[t] = "over"
  /\ activeRequests' = activeRequests - 1
  /\ svcPc' = [svcPc EXCEPT ![t] = "deferActive"]
  /\ UNCHANGED <<requestQueue, notSvc>>

\* lines 197-244: the request is decoded, processed and answered
SvcWork(t) ==
  /\ svcPc[t] = "work"
  /\ svcPc' = [svcPc EXCEPT ![t] = "deferActive"]
  /\ UNCHANGED <<activeRequests, requestQueue, notSvc>>

\* lines 179-182, run at return: atomic.AddInt32(&activeRequests, -1)
SvcDeferActive(t) ==
  /\ svcPc[t] = "deferActive"
  /\ activeRequests' = activeRequests - 1
  /\ svcPc' = [svcPc EXCEPT ![t] = "deferQueue"]
  /\ UNCHANGED <<requestQueue, notSvc>>

\* line 165, run at return: <-requestQueue
SvcDeferQueue(t) ==
  /\ svcPc[t] = "deferQueue"
  /\ requestQueue' = requestQueue - 1
  /\ svcPc' = [svcPc EXCEPT ![t] = "idle"]
  /\ UNCHANGED <<activeRequests, notSvc>>

SvcNext ==
  \/ \E t \in 1..SvcRequests : SvcArrive(t)
  \/ \E t \in 1..SvcRequests : SvcInc(t)
  \/ \E t \in 1..SvcRequests : SvcOver(t)
  \/ \E t \in 1..SvcRequests : SvcWork(t)
  \/ \E t \in 1..SvcRequests : SvcDeferActive(t)
  \/ \E t \in 1..SvcRequests : SvcDeferQueue(t)

\* the worker service runs on its own, beside a dispatcher that stays as built
SvcInit == StatusInit

SpecSvc == SvcInit /\ [][SvcNext]_vars

\* C26: activeRequests is never negative, and it is 0 whenever no request is
\* inside handleTask: every invocation, whatever its outcome, has put it back
\* to the value it found once it has returned.
C26_ActiveRequestsRestored ==
  /\ activeRequests >= 0
  /\ (\A t \in 1..SvcRequests : svcPc[t] = "idle") => activeRequests = 0

\* C27: the requests past the concurrency check (decoding, sleeping or
\* answering) are never more than MaxConcurrentRequests.
C27_AtMostMaxConcurrent ==
  Cardinality({t \in 1..SvcRequests : svcPc[t] = "work"}) <= MaxConcurrentRequests

\* ========================================================= the push stream
\* handleWebSocket (lines 631-655), BroadcastStatus (360-377) and the calls of
\* BroadcastStatus at the end of the handlers.  A WriteMessage is one step: it
\* delivers the frame, or fails; once a write to a connection has failed, or
\* the connection was closed, every later write to it fails.  GetStatus is one
\* step here.

\* lines 632-636: upgrader.Upgrade succeeds
WsUpgrade(c) ==
  /\ conn[c].pc = "none"
  /\ conn' = [conn EXCEPT ![c].pc = "register"]
  /\ UNCHANGED <<wsClients, broadcast, waiting, taken, changedAt, core, notPush>>

\* lines 638-640: under lb.wsClientsMu, lb.wsClients[conn] = true
WsRegister(c) ==
  /\ conn[c].pc = "register"
  /\ ~broadcast.on
  /\ wsClients' = wsClients \cup {c}
  /\ conn' = [conn EXCEPT ![c].pc = "status"]
  /\ UNCHANGED <<broadcast, waiting, taken, changedAt, core, notPush>>

\* lines 642-643: the snapshot sent on connect is taken, outside the mutex
WsStatus(c) ==
  /\ conn[c].pc = "status"
  /\ conn' = [conn EXCEPT ![c].pc = "hello", ![c].hello = Snapshot]
  /\ taken' = taken + 1
  /\ UNCHANGED <<wsClients, broadcast, waiting, changedAt, core, notPush>>

\* line 644: conn.WriteMessage(websocket.TextMessage, data); its error is dropped
WsHello(c, ok) ==
  /\ conn[c].pc = "hello"
  /\ conn' = [conn EXCEPT ![c].pc = "read",
                          ![c].frames = IF ok /\ ~conn[c].broken
                                        THEN Append(@, conn[c].hello) ELSE @,
                          ![c].broken = @ \/ ~ok]
  /\ UNCHANGED <<wsClients, broadcast, waiting, taken, changedAt, core, notPush>>

\* lines 646-654: conn.ReadMessage fails (the peer left, or the connection was
\* closed); under lb.wsClientsMu the connection is deleted, then closed
WsReadError(c) ==
  /\ conn[c].pc = "read"
  /\ ~broadcast.on
  /\ wsClients' = wsClients \ {c}
  /\ conn' = [conn EXCEPT ![c].pc = "closed", ![c].broken = TRUE]
  /\ UNCHANGED <<broadcast, waiting, taken, changedAt, core, notPush>>

\* lines 371-376: one turn of the loop over lb.wsClients, the WriteMessage to
\* the client the range is at; on a write error the client is closed and
\* deleted; the range then goes to any of the clients it has not been at;
\* after the last client the mutex is released
BroadcastWrite(c, ok) ==
  /\ broadcast.on
  /\ c = broadcast.client
  /\ LET sent == ok /\ ~conn[c].broken
     IN /\ conn' = [conn EXCEPT ![c].frames = IF sent THEN Append(@, broadcast.frame) ELSE @,
                                ![c].broken = ~sent]
        /\ wsClients' = IF sent THEN wsClients ELSE wsClients \ {c}
  /\ IF broadcast.todo = {c}
     THEN /\ broadcast' = NoBroadcast
          /\ waiting' = IF broadcast.handler THEN waiting - 1 ELSE waiting
     ELSE /\ \E client \in broadcast.todo \ {c} :
               broadcast' = [broadcast EXCEPT !.todo = @ \ {c}, !.client = client]
          /\ UNCHANGED waiting
  /\ UNCHANGED <<taken, changedAt, core, notPush>>

\* what a step of a handler that ends in lb.BroadcastStatus() leaves alone
\* beside the registry and the call
HandlerFrame == UNCHANGED <<wsClients, conn, broadcast, taken, notPush>>

\* PUT /algorithm, lines 493-511, beside the push stream
PushAlgorithm(algo) ==
  /\ Budget
  /\ handleAlgorithm(TRUE, algo)
  /\ HandlerFrame

\* PATCH /workers/{name}, lines 518-548, beside the push stream
PushWorker(name, enabled) ==
  /\ Budget
  /\ handleWorker("PATCH", name, TRUE, enabled, <<>>)
  /\ HandlerFrame

\* the end of a POST /task answered with success, lines 442-459, beside the
\* push stream
PushTask(h, null) ==
  /\ HandleTaskSuccess(h, null)
  /\ HandlerFrame

\* The handlers of PUT /algorithm, PATCH /workers/{name} and POST /task beside
\* the connections, the broadcasts and the ticker.  Of handleTask only the last
\* step is taken here, the one that ends in BroadcastStatus: PushInit has the
\* forwards that were answered with success; their earlier steps are in Spec.
PushNext ==
  \/ \E c \in Conns : WsUpgrade(c) /\ UNCHANGED tail
  \/ \E c \in Conns : WsRegister(c) /\ UNCHANGED tail
  \/ \E c \in Conns : WsStatus(c) /\ UNCHANGED tail
  \/ \E c \in Conns, ok \in BOOLEAN : WsHello(c, ok) /\ UNCHANGED tail
  \/ \E c \in Conns : WsReadError(c) /\ UNCHANGED tail
  \/ \E handler \in BOOLEAN : BroadcastLock(handler) /\ UNCHANGED tail
  \/ \E c \in Conns, ok \in BOOLEAN : BroadcastWrite(c, ok) /\ UNCHANGED tail
  \/ \E algo \in {"least-connections", "round-robin"} : PushAlgorithm(algo) /\ UNCHANGED tail
  \/ \E name \in 1..Len(workers) : PushWorker(name, <<FALSE>>) /\ UNCHANGED tail
  \/ \E h \in 1..PushHandlers, null \in BOOLEAN : PushTask(h, null) /\ UNCHANGED tail

\* the dispatcher as built, with up to PushHandlers forwards to the first
\* worker answered below 500 (line 427 passed, line 442 not yet reached)
PushInit ==
  /\ \E n \in 0..PushHandlers :
       /\ workers = [Registered(NumWorkers) EXCEPT ![1].TotalRequests = n]
       /\ pc = [h \in Handlers |-> IF h <= n THEN "success" ELSE "idle"]
       /\ worker = [h \in Handlers |-> IF h <= n THEN 1 ELSE Nil]
       /\ tasks = n
  /\ algorithm = "round-robin"
  /\ setAlgo = algorithm
  /\ resp = 0
  /\ roundRobinIdx = 0
  /\ probe = [i \in 1..NumWorkers |-> NoProbe]
  /\ result = Nil
  /\ rrLog = <<>>
  /\ okSinceFail = [i \in 1..NumWorkers |-> TRUE]
  /\ okSinceOpen = [i \in 1..NumWorkers |-> TRUE]
  /\ wsClients = {}
  /\ conn = [c \in Conns |-> NoConn]
  /\ broadcast = NoBroadcast
  /\ waiting = 0
  /\ taken = 0
  /\ changedAt = 0
  /\ writing = [c \in Conns |-> {}]
  /\ OthersAbsent

SpecPush == PushInit /\ [][PushNext]_vars

\* every goroutine that can take its next step takes it: a handler that waits
\* for lb.wsClientsMu gets it once it is free, a handler past its forward
\* finishes; the arrivals (upgrades, requests, ticks, peers leaving) are free
Progress ==
  /\ \A c \in Conns : WF_vars(WsRegister(c) /\ UNCHANGED tail)
  /\ \A c \in Conns : WF_vars(WsStatus(c) /\ UNCHANGED tail)
  /\ \A h \in 1..PushHandlers :
       WF_vars((\E null \in BOOLEAN : PushTask(h, null)) /\ UNCHANGED tail)
  /\ WF_vars(BroadcastLock(TRUE) /\ UNCHANGED tail)

\* every WriteMessage returns, with or without an error
WritesReturn ==
  /\ \A c \in Conns : WF_vars((\E ok \in BOOLEAN : WsHello(c, ok)) /\ UNCHANGED tail)
  /\ \A c \in Conns : WF_vars((\E ok \in BOOLEAN : BroadcastWrite(c, ok)) /\ UNCHANGED tail)

\* the push stream with peers that take every frame or fail
SpecPushFair == PushInit /\ [][PushNext]_vars /\ Progress /\ WritesReturn

\* the push stream with peers that may leave a WriteMessage blocked for ever
\* (no write deadline is set on the connections)
SpecPushSlow == PushInit /\ [][PushNext]_vars /\ Progress

\* C22: every subscriber receives its frames in the order in which their
\* snapshots were taken, the snapshot taken on connect first: a frame with an
\* older snapshot never follows one with a newer snapshot.
C22_FramesInSnapshotOrder ==
  \A c \in Conns :
    /\ \A j, k \in 1..Len(conn[c].frames) :
         j < k => conn[c].frames[j].seq < conn[c].frames[k].seq
    /\ (Len(conn[c].frames) > 0 /\ conn[c].hello.seq > 0)
       => conn[c].frames[1].seq = conn[c].hello.seq

\* C23: a registered connection stays in lb.wsClients as long as no write to
\* it has failed and no read on it has failed, and it is out of the set as
\* soon as a write to it (the one on connect or one of a broadcast) or a read
\* has failed, so that no later broadcast writes to it.
C23_SubscriberUntilFirstError ==
  \A c \in Conns :
    /\ conn[c].broken => c \notin wsClients
    /\ (conn[c].pc \in {"status", "hello", "read"} /\ ~conn[c].broken)
       => c \in wsClients

\* C24: a subscriber whose write is blocked does not stall the others: the
\* broadcast ends, so the other subscribers get the following snapshots; a new
\* connection gets registered; and every handler that has called
\* BroadcastStatus returns.
C24_SlowSubscriberNoStall ==
  /\ broadcast.on ~> ~broadcast.on
  /\ \A c \in Conns : (conn[c].pc = "register") ~> (conn[c].pc # "register")
  /\ (waiting > 0) ~> (waiting = 0)

\* c is registered and no write to it has failed
Connected(c) == c \in wsClients /\ ~conn[c].broken

\* c is connected and has no frame yet whose snapshot was taken after the
\* latest change
Behind(c) ==
  /\ Connected(c)
  /\ \A j \in 1..Len(conn[c].frames) : conn[c].frames[j].seq <= changedAt

\* c is connected and has no frame yet that says least-connections
BehindOnAlgorithm(c) ==
  /\ Connected(c)
  /\ \A j \in 1..Len(conn[c].frames) :
       conn[c].frames[j].data.algorithm # "least-connections"

\* a WriteMessage to c is called and has not returned: the one on connect, or
\* the one of the running broadcast, whose loop is at c
WriteOpen(c) ==
  \/ conn[c].pc = "hello"
  \/ broadcast.on /\ broadcast.client = c

\* C25: every change made by PUT /algorithm, PATCH /workers/{name} or a
\* successful POST /task is followed by a broadcast, so every subscriber that
\* stays connected receives a frame whose snapshot was taken after the change;
\* after PUT /algorithm least-connections it receives a frame with algorithm =
\* least-connections, unless a later PUT /algorithm sets another algorithm
\* first.  Stated for the subscribers to which no write is outstanding: such a
\* subscriber, when it is behind, is later not behind (P ~> ~P, which is
\* []<>~P).
C25_ChangeReachesSubscribers ==
  /\ \A c \in Conns : []<>(~Behind(c) \/ WriteOpen(c))
  /\ \A c \in Conns :
       []<>(~BehindOnAlgorithm(c) \/ algorithm # "least-connections" \/ WriteOpen(c))

\* ================================================= forwards one at a time
\* POST /task requests served one after the other by one handler, to the one
\* registered worker, with no probe in between: the sequences of forward
\* outcomes (answered below 500, or failed) applied to a worker.  run[i] is
\* the number of failed forwards to worker i since the latest forward to it
\* that was answered below 500.
SeqInit ==
  /\ workers = Registered(NumWorkers)
  /\ algorithm = "round-robin"
  /\ setAlgo = algorithm
  /\ resp = 0
  /\ roundRobinIdx = 0
  /\ pc = [h \in Handlers |-> "idle"]
  /\ worker = [h \in Handlers |-> Nil]
  /\ probe = [i \in 1..NumWorkers |-> NoProbe]
  /\ tasks = 0
  /\ result = Nil
  /\ rrLog = <<>>
  /\ okSinceFail = [i \in 1..NumWorkers |-> TRUE]
  /\ okSinceOpen = [i \in 1..NumWorkers |-> TRUE]
  /\ OutsideInit

\* the outcome of the forward: lines 420-427 with the record of the run
SeqResponse(ok) ==
  /\ HandleTaskResponse(1, ok)
  /\ run' = [run EXCEPT ![worker[1]] = IF ok THEN 0 ELSE @ + 1]
  /\ UNCHANGED <<statusVars, pushVars, svcVars, tail>>

SeqNext ==
  \/ HandleTaskSelectUpTo(1, SeqInputs) /\ UNCHANGED outside
  \/ HandleTaskIncLoad(1) /\ UNCHANGED outside
  \/ HandleTaskIncTotal(1) /\ UNCHANGED outside
  \/ \E ok \in BOOLEAN : SeqResponse(ok)
  \/ HandleTaskFail(1) /\ UNCHANGED outside
  \/ HandleTaskConsec(1) /\ UNCHANGED outside
  \/ HandleTaskTrip(1) /\ UNCHANGED outside
  \/ \E null \in BOOLEAN : CallFree /\ HandleTaskSuccess(1, null) /\ UNCHANGED beyond
  \/ BroadcastLock(TRUE) /\ UNCHANGED tail

SpecSeq == SeqInit /\ [][SeqNext]_vars

\* C28: under forwards served one at a time the circuit of a worker goes from
\* closed to open at a forward if and only if that forward is a failure to it
\* that brings the run of failures since the latest success to
\* circuitThreshold; between two forwards ConsecFailures is the length of
\* that run, 0 after a success, so a shorter run never opens the circuit.
C28_OpensOnThresholdRun ==
  [][\A i \in 1..Len(workers) :
       /\ (~workers[i].CircuitOpen /\ workers'[i].CircuitOpen)
          <=> (/\ pc[1] \in {"consec", "trip"}
               /\ pc'[1] = "idle"
               /\ worker[1] = i
               /\ run[i] >= circuitThreshold)
       /\ pc'[1] = "idle" => workers'[i].ConsecFailures = run'[i]
       /\ (pc[1] = "success" /\ pc'[1] = "idle" /\ worker[1] = i) => run'[i] = 0]_vars

\* two failures, a success, then circuitThreshold failures: the circuit is open
C28_Witness ==
  /\ pc[1] = "idle"
  /\ workers[1].CircuitOpen
  /\ run[1] = circuitThreshold
  /\ workers[1].FailedRequests = circuitThreshold + 2
  /\ workers[1].TotalRequests = SeqInputs

\* ============================================== the worker's configuration
\* src/workers/go/main.go: Configuration.Update (lines 126-141) and
\* handleConfig (278-296); src/load-balancer/main.go: handleWorkerConfig
\* (555-628), which passes the method and the body on as they are.

\* the failure rates a body can carry, in hundredths
CfgRates == {-1, 0, 50, 101}

\* the fields a body carries
Carried(body) == {f \in CfgFields : body[f] # <<>>}

\* the bodies sent: up to MaxBodyFields of the fields, with integers up to
\* CfgMaxInt
Bodies ==
  {b \in [max_concurrent_requests : Opt(-1..CfgMaxInt),
          response_delay_ms : Opt(-1..CfgMaxInt),
          failure_rate : Opt(CfgRates), queue_size : Opt(-1..CfgMaxInt)] :
     Cardinality(Carried(b)) <= MaxBodyFields}

\* the bodies the client's panel sends through the dispatcher
\* (src/client/src/App.tsx, updateWorkerConfig): one field each
PanelBodies == {b \in Bodies : Cardinality(Carried(b)) = 1}

\* lines 283-284: json.Decode into a zero Configuration: a field the body does
\* not carry stays 0
DecodeConfig(body) == [f \in CfgFields |-> IF body[f] = <<>> THEN 0 ELSE body[f][1]]

\* Configuration.Update, lines 126-141
ConfigurationUpdate(c, newConfig) ==
  [max_concurrent_requests |->
     IF newConfig.max_concurrent_requests > 0
     THEN newConfig.max_concurrent_requests ELSE c.max_concurrent_requests,
   response_delay_ms |->
     IF newConfig.response_delay_ms >= 0
     THEN newConfig.response_delay_ms ELSE c.response_delay_ms,
   failure_rate |->
     IF newConfig.failure_rate >= 0 /\ newConfig.failure_rate <= 100
     THEN newConfig.failure_rate ELSE c.failure_rate,
   queue_size |->
     IF newConfig.queue_size > 0 THEN newConfig.queue_size ELSE c.queue_size]

\* the effect of handleConfig, lines 278-296: GET answers the configuration,
\* PUT and POST decode the body (400 when that fails) and apply it, any other
\* method is answered 405
ConfigHandled(method, decoded, body) ==
  IF method \in {"PUT", "POST"} /\ decoded
  THEN /\ config' = ConfigurationUpdate(config, DecodeConfig(body))
       /\ cfgBody' = Carried(body)
  ELSE /\ config' = config
       /\ cfgBody' = {}

\* the status handleConfig answers with
ConfigStatus(method, decoded) ==
  IF method = "GET" THEN StatusOK
  ELSE IF method \in {"PUT", "POST"}
  THEN (IF decoded THEN StatusOK ELSE StatusBadRequest)
  ELSE StatusMethodNotAllowed

\* a request sent to /config of the worker directly
handleConfig(method, decoded, body) ==
  /\ ConfigHandled(method, decoded, body)
  /\ UNCHANGED <<proxy, core, notCfg>>

\* what a step of handleWorkerConfig leaves alone in the dispatcher
ProxyFrame ==
  UNCHANGED <<workers, algorithm, roundRobinIdx, pc, worker, probe, tasks, result,
              rrLog, okSinceFail, okSinceOpen, setAlgo, notCfg>>

\* a request to /workers/{name}/config of the dispatcher, lines 555-599;
\* parts is the path after /workers/ split at the slashes, the worker's name
\* first.  400 for a path whose second part is not config (the router of
\* main, lines 718-725, sends no such path here); the worker is looked up
\* under lb.mu.RLock, 404 for an unknown one, 405 for a method other than GET,
\* PUT and POST, 500 when the request to the worker cannot be built (built is
\* false); else the request is on its way to the worker, with the same
\* method and body
handleWorkerConfig(parts, method, decoded, body, built) ==
  /\ proxy.pc = "none"
  /\ IF Len(parts) < 2 \/ parts[2] # "config"
     THEN resp' = StatusBadRequest /\ UNCHANGED proxy
     ELSE IF ~UpdateWorkerFound(workers, parts[1])
     THEN resp' = StatusNotFound /\ UNCHANGED proxy
     ELSE IF method \notin {"GET", "PUT", "POST"}
     THEN resp' = StatusMethodNotAllowed /\ UNCHANGED proxy
     ELSE IF ~built
     THEN resp' = StatusInternalServerError /\ UNCHANGED proxy
     ELSE /\ proxy' = [pc |-> "sent", method |-> method, decoded |-> decoded,
                       body |-> body, status |-> 0]
          /\ UNCHANGED resp
  /\ UNCHANGED <<config, cfgBody>>
  /\ ProxyFrame

\* line 601, client.Do, up to the worker: the request does not reach the
\* worker (it is down, or the 5 s of line 579 pass first) and the answer is
\* 502, or the worker's handleConfig serves it
handleWorkerConfigDo(reached) ==
  /\ proxy.pc = "sent"
  /\ IF reached
     THEN /\ ConfigHandled(proxy.method, proxy.decoded, proxy.body)
          /\ proxy' = [proxy EXCEPT !.pc = "served",
                                    !.status = ConfigStatus(proxy.method, proxy.decoded)]
          /\ UNCHANGED resp
     ELSE /\ resp' = StatusBadGateway
          /\ proxy' = NoProxy
          /\ UNCHANGED <<config, cfgBody>>
  /\ ProxyFrame

\* lines 601-627, from the worker back: client.Do or io.ReadAll fails (the
\* answer is lost or late) and the answer is 502, or the worker's status is
\* passed on
handleWorkerConfigAnswer(read) ==
  /\ proxy.pc = "served"
  /\ resp' = IF read THEN proxy.status ELSE StatusBadGateway
  /\ proxy' = NoProxy
  /\ UNCHANGED <<config, cfgBody>>
  /\ ProxyFrame

CfgNext ==
  \/ \E body \in Bodies : handleConfig("PUT", TRUE, body)
  \/ \E body \in PanelBodies : handleConfig("POST", TRUE, body)
  \/ \E method \in {"GET", "PUT", "DELETE"} : handleConfig(method, FALSE, EmptyBody)
  \/ \E body \in PanelBodies, built \in BOOLEAN :
       handleWorkerConfig(<<1, "config">>, "PUT", TRUE, body, built)
  \/ \E name \in 0..1, method \in {"GET", "PUT", "DELETE"} :
       handleWorkerConfig(<<name, "config">>, method, FALSE, EmptyBody, TRUE)
  \/ \E reached \in BOOLEAN : handleWorkerConfigDo(reached)
  \/ \E read \in BOOLEAN : handleWorkerConfigAnswer(read)

CfgInit == StatusInit

SpecCfg == CfgInit /\ [][CfgNext]_vars

\* C40: an update of the configuration changes only the fields its body
\* carries: every field the body does not carry keeps its value.
C40_OmittedFieldsKept ==
  [][\A f \in CfgFields : f \notin cfgBody' => config'[f] = config[f]]_vars

\* ================================== least-connections beside the forwards
\* SelectWorker under least-connections (lines 134-145, 168-183) step by
\* step: it holds lb.mu.RLock, so the flags keep their values during the call,
\* while CurrentLoad is changed by the atomics of handleTask (lines 413, 425)
\* outside the lock and is read once per worker, each read a step.

\* the CurrentLoad of every worker at one instant
LoadsOf(ws) == [i \in 1..Len(ws) |-> ws[i].CurrentLoad]

\* lines 135-144, 169-170: lb.mu.RLock(), the switch, the locals
LCLock ==
  /\ scan.pc \in {"idle", "done"}
  /\ algorithm = "least-connections"
  /\ Len(workers) > 0
  /\ scan' = [pc |-> "scan", i |-> 1, minLoad |-> MaxInt64, selected |-> Nil,
              eligible |-> EligibleSet(workers)]
  /\ loads' = {LoadsOf(workers)}
  /\ UNCHANGED notLC

\* lines 172-181: one turn of the loop
LCStep ==
  /\ scan.pc = "scan"
  /\ scan.i <= Len(workers)
  /\ LET w == workers[scan.i]
         load == w.CurrentLoad
     IN scan' = IF Eligible(w) /\ load < scan.minLoad
                THEN [scan EXCEPT !.i = @ + 1, !.minLoad = load, !.selected = scan.i]
                ELSE [scan EXCEPT !.i = @ + 1]
  /\ UNCHANGED <<loads, notLC>>

\* line 182: return selected; lb.mu.RUnlock()
LCReturn ==
  /\ scan.pc = "scan"
  /\ scan.i > Len(workers)
  /\ scan' = [scan EXCEPT !.pc = "done"]
  /\ UNCHANGED <<loads, notLC>>

\* the history of a step of a /task handler taken beside the call
LCBesideCall ==
  /\ loads' = IF scan.pc = "scan" THEN loads \cup {LoadsOf(workers')} ELSE loads
  /\ UNCHANGED <<scan, statusVars, wsClients, conn, broadcast, taken, svcVars, run,
                 cfgVars, writing, loop, lockVars>>

\* the same for a step that does not end in lb.BroadcastStatus()
LCBeside == LCBesideCall /\ UNCHANGED <<waiting, changedAt>>

\* LCWorkers workers as registered, each with up to MaxLoad forwards in flight
\* whose handlers are not followed here, and /task handlers that have their
\* worker from an earlier selection and have not yet counted their forward
LCInit ==
  /\ \E ld \in [1..LCWorkers -> 0..MaxLoad] :
       workers = [i \in 1..LCWorkers |->
                    [Registered(LCWorkers)[i] EXCEPT !.CurrentLoad = ld[i]]]
  /\ \E sel \in [Handlers -> 0..LCWorkers] :
       /\ worker = sel
       /\ pc = [h \in Handlers |-> IF sel[h] = Nil THEN "idle" ELSE "incLoad"]
  /\ algorithm = "least-connections"
  /\ setAlgo = algorithm
  /\ resp = 0
  /\ roundRobinIdx = 0
  /\ probe = [i \in 1..LCWorkers |-> NoProbe]
  /\ tasks = 0
  /\ result = Nil
  /\ rrLog = <<>>
  /\ okSinceFail = [i \in 1..LCWorkers |-> TRUE]
  /\ okSinceOpen = [i \in 1..LCWorkers |-> TRUE]
  /\ OutsideInit

\* a step that takes lb.mu.Lock waits while the call holds the read lock
LCNext ==
  \/ LCLock
  \/ LCStep
  \/ LCReturn
  \/ \E h \in Handlers : HandleTaskSelectUpTo(h, LCTasks) /\ LCBeside
  \/ \E h \in Handlers : HandleTaskIncLoad(h) /\ LCBeside
  \/ \E h \in Handlers : HandleTaskIncTotal(h) /\ LCBeside
  \/ \E h \in Handlers, ok \in BOOLEAN : HandleTaskResponse(h, ok) /\ LCBeside
  \/ \E h \in Handlers : HandleTaskFail(h) /\ LCBeside
  \/ \E h \in Handlers : HandleTaskConsec(h) /\ LCBeside
  \/ \E h \in Handlers : scan.pc # "scan" /\ HandleTaskTrip(h) /\ LCBeside
  \/ \E h \in Handlers, null \in BOOLEAN :
       CallFree /\ HandleTaskSuccess(h, null) /\ LCBesideCall
  \/ BroadcastLock(TRUE) /\ UNCHANGED tail

SpecLC == LCInit /\ [][LCNext]_vars

\* C31: the worker a least-connections selection returns had, at some instant
\* between the RLock and the RUnlock of the selection, a CurrentLoad that was
\* at most the CurrentLoad of every other eligible worker at that instant.
C31_MinimalAtSomeInstant ==
  (scan.pc = "done" /\ scan.selected # Nil)
  => \E v \in loads : \A j \in scan.eligible : v[scan.selected] <= v[j]

\* ==================================================== the writes in progress
\* The push stream with every WriteMessage in two steps, its call and its
\* return, so that two writes to one connection can be seen in progress at
\* the same time.

\* what a write in progress leaves alone beside the push stream
notWriting == <<cfgVars, lcVars, loop, lockVars>>

\* line 644: handleWebSocket calls conn.WriteMessage, holding no lock
WsHelloCall(c) ==
  /\ conn[c].pc = "hello"
  /\ "hello" \notin writing[c]
  /\ writing' = [writing EXCEPT ![c] = @ \cup {"hello"}]
  /\ UNCHANGED <<core, statusVars, pushVars, svcVars, run, notWriting>>

\* line 644: that WriteMessage returns
WsHelloReturn(c, ok) ==
  /\ "hello" \in writing[c]
  /\ WsHello(c, ok)
  /\ writing' = [writing EXCEPT ![c] = @ \ {"hello"}]
  /\ UNCHANGED notWriting

\* line 372: BroadcastStatus, holding lb.wsClientsMu, calls client.WriteMessage
\* for the next client of its loop
BroadcastWriteCall(c) ==
  /\ broadcast.on
  /\ c = broadcast.client
  /\ \A d \in Conns : "broadcast" \notin writing[d]
  /\ writing' = [writing EXCEPT ![c] = @ \cup {"broadcast"}]
  /\ UNCHANGED <<core, statusVars, pushVars, svcVars, run, notWriting>>

\* lines 372-375: that WriteMessage returns
BroadcastWriteReturn(c, ok) ==
  /\ "broadcast" \in writing[c]
  /\ BroadcastWrite(c, ok)
  /\ writing' = [writing EXCEPT ![c] = @ \ {"broadcast"}]
  /\ UNCHANGED notWriting

WriteNext ==
  \/ \E c \in Conns : WsUpgrade(c) /\ UNCHANGED tail
  \/ \E c \in Conns : WsRegister(c) /\ UNCHANGED tail
  \/ \E c \in Conns : WsStatus(c) /\ UNCHANGED tail
  \/ \E c \in Conns : WsHelloCall(c)
  \/ \E c \in Conns, ok \in BOOLEAN : WsHelloReturn(c, ok)
  \/ \E c \in Conns : WsReadError(c) /\ UNCHANGED tail
  \/ \E handler \in BOOLEAN : BroadcastLock(handler) /\ UNCHANGED tail
  \/ \E c \in Conns : BroadcastWriteCall(c)
  \/ \E c \in Conns, ok \in BOOLEAN : BroadcastWriteReturn(c, ok)
  \/ \E algo \in {"least-connections", "round-robin"} : PushAlgorithm(algo) /\ UNCHANGED tail
  \/ \E name \in 1..Len(workers) : PushWorker(name, <<FALSE>>) /\ UNCHANGED tail
  \/ \E h \in 1..PushHandlers, null \in BOOLEAN : PushTask(h, null) /\ UNCHANGED tail

SpecWrite == PushInit /\ [][WriteNext]_vars

\* C37: at most one WriteMessage is in progress on a subscriber connection at
\* a time: the write of the snapshot on connect and the writes of
\* BroadcastStatus to the same connection never overlap.
C37_OneWriterPerConnection ==
  \A c \in Conns : Cardinality(writing[c]) <= 1

\* ========================================================= the ticker loops
\* HealthCheck (lines 277-288) and StartBroadcast (380-391), started by main
\* with the context that the signal handler cancels (lines 709-713, 745-748).
\* Each loop waits in a select on ctx.Done() and on its ticker; when both are
\* ready the select takes either.  BroadcastStatus takes no context and sets
\* no write deadline.  The handlers and their broadcasts are in SpecPush.

\* what the loops leave alone beside the registry and the push stream
notLoop == <<cfgVars, lcVars, writing, lockVars>>

\* line 748: cancel()
Cancel ==
  /\ ~loop.cancelled
  /\ loop' = [loop EXCEPT !.cancelled = TRUE]
  /\ UNCHANGED <<core, statusVars, pushVars, svcVars, run, notLoop>>

\* lines 284-285: case <-ticker.C: lb.checkAllWorkers()
HealthCheckTick ==
  /\ loop.health = "select"
  /\ checkAllWorkers
  /\ UNCHANGED <<loop, statusVars, pushVars, svcVars, run, notLoop>>

\* lines 282-283: case <-ctx.Done(): return
HealthCheckDone ==
  /\ loop.health = "select"
  /\ loop.cancelled
  /\ loop' = [loop EXCEPT !.health = "done"]
  /\ UNCHANGED <<core, statusVars, pushVars, svcVars, run, notLoop>>

\* lines 387-388, 361: case <-ticker.C: BroadcastStatus is called and waits
\* for lb.wsClientsMu
StartBroadcastTick ==
  /\ loop.bcast = "select"
  /\ Budget
  /\ loop' = [loop EXCEPT !.bcast = "lock"]
  /\ UNCHANGED <<core, statusVars, pushVars, svcVars, run, notLoop>>

\* lines 361-370: the call has the mutex and its snapshot; with no client it
\* returns to the select
StartBroadcastLock ==
  /\ loop.bcast = "lock"
  /\ BroadcastLock(FALSE)
  /\ loop' = [loop EXCEPT !.bcast = IF wsClients = {} THEN "select" ELSE "call"]
  /\ UNCHANGED notLoop

\* lines 371-376: a WriteMessage of the call returns; after the last client
\* the call returns to the select
StartBroadcastWrite(c, ok) ==
  /\ loop.bcast = "call"
  /\ BroadcastWrite(c, ok)
  /\ loop' = [loop EXCEPT !.bcast = IF broadcast.todo = {c} THEN "select" ELSE @]
  /\ UNCHANGED notLoop

\* lines 385-386: case <-ctx.Done(): return
StartBroadcastDone ==
  /\ loop.bcast = "select"
  /\ loop.cancelled
  /\ loop' = [loop EXCEPT !.bcast = "done"]
  /\ UNCHANGED <<core, statusVars, pushVars, svcVars, run, notLoop>>

LoopNext ==
  \/ Cancel
  \/ HealthCheckTick
  \/ HealthCheckDone
  \/ StartBroadcastTick
  \/ StartBroadcastLock
  \/ \E c \in 1..LoopConns, ok \in BOOLEAN : StartBroadcastWrite(c, ok)
  \/ StartBroadcastDone
  \/ \E i \in 1..Len(workers) : checkWorkerFail(i) /\ UNCHANGED outside
  \/ \E i \in 1..Len(workers) : checkWorkerOpen(i) /\ UNCHANGED outside
  \/ \E i \in 1..Len(workers) : checkWorkerOk(i) /\ UNCHANGED outside
  \/ \E i \in 1..Len(workers) : checkWorkerRead(i) /\ UNCHANGED outside
  \/ \E i \in 1..Len(workers) : checkWorkerClose(i) /\ UNCHANGED outside
  \/ \E c \in 1..LoopConns : WsUpgrade(c) /\ UNCHANGED tail
  \/ \E c \in 1..LoopConns : WsRegister(c) /\ UNCHANGED tail
  \/ \E c \in 1..LoopConns : WsStatus(c) /\ UNCHANGED tail
  \/ \E c \in 1..LoopConns, ok \in BOOLEAN : WsHello(c, ok) /\ UNCHANGED tail
  \/ \E c \in 1..LoopConns : WsReadError(c) /\ UNCHANGED tail

LoopInit == StatusInit

\* a loop that can take a step of its own takes it: a select with ctx.Done()
\* ready returns, a call that waits for a free mutex gets it; ticks, signals
\* and peers are free
LoopProgress ==
  /\ WF_vars(HealthCheckDone)
  /\ WF_vars(StartBroadcastDone)
  /\ WF_vars(StartBroadcastLock)

\* the loops with peers that may leave a WriteMessage blocked for ever
SpecLoop == LoopInit /\ [][LoopNext]_vars /\ LoopProgress

\* the loops with peers that take every frame or fail
SpecLoopFair ==
  /\ SpecLoop
  /\ \A c \in 1..LoopConns : WF_vars(\E ok \in BOOLEAN : StartBroadcastWrite(c, ok))

\* C32: once the root context is cancelled, the loop of HealthCheck and the
\* loop of StartBroadcast each return; after HealthCheck has returned no probe
\* round is started, and after StartBroadcast has returned no periodic
\* broadcast is started.
C32_LoopsStopOnCancel ==
  /\ loop.cancelled ~> (loop.health = "done" /\ loop.bcast = "done")
  /\ [][/\ loop.health = "done" => \A i \in 1..Len(workers) : probe'[i].get <= probe[i].get
        /\ loop.bcast = "done" => Broadcasts' = Broadcasts]_vars

\* ================================================================ the locks
\* The operations of the dispatcher as the sequences of lock and unlock calls
\* they make on lb.mu and lb.wsClientsMu, run by NumGoroutines goroutines.
\* lb.mu is a sync.RWMutex: Lock first excludes the other writers and the
\* readers that arrive later, then waits until the readers it found have
\* left; an RLock that arrives meanwhile waits for the Unlock, which admits
\* all the waiting readers.

\* the calls on the locks, and the WriteMessage calls, of each operation
ProgramNested(kind) ==
  CASE kind = "SelectWorker"    -> <<"RLock", "RUnlock">>
    [] kind = "GetStatus"       -> <<"RLock", "RUnlock">>
    [] kind = "UpdateWorker"    -> <<"Lock", "Unlock">>
    [] kind = "SetAlgorithm"    -> <<"Lock", "Unlock">>
    [] kind = "BroadcastStatus" -> <<"WsLock", "RLock", "RUnlock", "Write", "WsUnlock">>
    [] kind = "checkWorkerOpen" -> <<"Lock", "Unlock">>
    [] kind = "checkWorkerOk"   -> <<"RLock", "RUnlock">>
    [] kind = "checkWorkerClose" -> <<"RLock", "RUnlock", "Lock", "Unlock">>
    [] kind = "handleTaskFail"  -> <<"RLock", "RUnlock">>
    [] kind = "handleTaskTrip"  -> <<"RLock", "RUnlock", "Lock", "Unlock">>
    [] kind = "handleTaskSuccess" ->
         <<"RLock", "RUnlock", "WsLock", "RLock", "RUnlock", "Write", "WsUnlock">>
    [] kind = "handleWebSocket" ->
         <<"RLock", "WsLock", "WsUnlock", "RUnlock", "Write", "WsLock", "WsUnlock">>

Program(kind) ==
  CASE kind = "SelectWorker"    -> <<"RLock", "RUnlock">>
    [] kind = "GetStatus"       -> <<"RLock", "RUnlock">>
    [] kind = "UpdateWorker"    -> <<"Lock", "Unlock">>
    [] kind = "SetAlgorithm"    -> <<"Lock", "Unlock">>
    [] kind = "BroadcastStatus" -> <<"WsLock", "RLock", "RUnlock", "Write", "WsUnlock">>
    [] kind = "checkWorkerOpen" -> <<"Lock", "Unlock">>
    [] kind = "checkWorkerOk"   -> <<"RLock", "RUnlock">>
    [] kind = "checkWorkerClose" -> <<"RLock", "RUnlock", "Lock", "Unlock">>
    [] kind = "handleTaskFail"  -> <<"RLock", "RUnlock">>
    [] kind = "handleTaskTrip"  -> <<"RLock", "RUnlock", "Lock", "Unlock">>
    [] kind = "handleTaskSuccess" ->
         <<"RLock", "RUnlock", "WsLock", "RLock", "RUnlock", "Write", "WsUnlock">>
    [] kind = "handleWebSocket" ->
         <<"WsLock", "WsUnlock", "RLock", "RUnlock", "Write", "WsLock", "WsUnlock">>

Operations ==
  {"SelectWorker", "GetStatus", "UpdateWorker", "SetAlgorithm", "BroadcastStatus",
   "checkWorkerOpen", "checkWorkerOk", "checkWorkerClose",
   "handleTaskFail", "handleTaskTrip", "handleTaskSuccess", "handleWebSocket"}

\* the call the goroutine is at
At(g) == IF op[g].todo = <<>> THEN "none" ELSE Head(op[g].todo)

\* the goroutine after the call it is at has returned
Advance(o) == IF Len(o.todo) = 1 THEN NoOp ELSE [o EXCEPT !.todo = Tail(@)]

\* what the calls on the locks leave alone
notLocks == <<core, statusVars, pushVars, svcVars, run, cfgVars, lcVars, writing, loop>>

\* a request, a tick or a probe starts the operation
Begin(g, kind) ==
  /\ op[g] = NoOp
  /\ op' = [op EXCEPT ![g] = [todo |-> Program(kind), blocked |-> FALSE]]
  /\ UNCHANGED <<locks, notLocks>>

\* lb.mu.RLock(): it returns when no writer has announced itself, and waits
\* for that writer's Unlock otherwise
muRLock(g) ==
  /\ At(g) = "RLock"
  /\ g \notin locks.rwait
  /\ IF locks.w = 0
     THEN /\ locks' = [locks EXCEPT !.readers = @ \cup {g}]
          /\ op' = [op EXCEPT ![g] = Advance(@)]
     ELSE /\ locks' = [locks EXCEPT !.rwait = @ \cup {g}]
          /\ op' = [op EXCEPT ![g].blocked = TRUE]
  /\ UNCHANGED notLocks

\* lb.mu.RUnlock()
muRUnlock(g) ==
  /\ At(g) = "RUnlock"
  /\ locks' = [locks EXCEPT !.readers = @ \ {g}]
  /\ op' = [op EXCEPT ![g] = Advance(@)]
  /\ UNCHANGED notLocks

\* lb.mu.Lock(), first half: the writer has the writers' mutex and has
\* announced itself to the readers
muLock(g) ==
  /\ At(g) = "Lock"
  /\ locks.w = 0
  /\ locks' = [locks EXCEPT !.w = g]
  /\ op' = [op EXCEPT ![g].blocked = @ \/ locks.readers # {}]
  /\ UNCHANGED notLocks

\* lb.mu.Lock(), second half: the readers it found have left, Lock returns
muLockReturn(g) ==
  /\ At(g) = "Lock"
  /\ locks.w = g
  /\ locks.readers = {}
  /\ op' = [op EXCEPT ![g] = Advance(@)]
  /\ UNCHANGED <<locks, notLocks>>

\* lb.mu.Unlock(): the readers that waited are admitted, their RLock returns
muUnlock(g) ==
  /\ At(g) = "Unlock"
  /\ locks' = [locks EXCEPT !.w = 0, !.readers = locks.rwait, !.rwait = {}]
  /\ op' = [h \in Goroutines |->
              IF h = g \/ h \in locks.rwait THEN Advance(op[h]) ELSE op[h]]
  /\ UNCHANGED notLocks

\* lb.wsClientsMu.Lock()
wsClientsMuLock(g) ==
  /\ At(g) = "WsLock"
  /\ locks.ws = 0
  /\ locks' = [locks EXCEPT !.ws = g]
  /\ op' = [op EXCEPT ![g] = Advance(@)]
  /\ UNCHANGED notLocks

\* lb.wsClientsMu.Unlock()
wsClientsMuUnlock(g) ==
  /\ At(g) = "WsUnlock"
  /\ locks' = [locks EXCEPT !.ws = 0]
  /\ op' = [op EXCEPT ![g] = Advance(@)]
  /\ UNCHANGED notLocks

\* the WriteMessage calls of the operation return
WriteMessage(g) ==
  /\ At(g) = "Write"
  /\ op' = [op EXCEPT ![g] = Advance(@)]
  /\ UNCHANGED <<locks, notLocks>>

\* the next step of the goroutine inside its operation
Step(g) ==
  \/ muRLock(g)
  \/ muRUnlock(g)
  \/ muLock(g)
  \/ muLockReturn(g)
  \/ muUnlock(g)
  \/ wsClientsMuLock(g)
  \/ wsClientsMuUnlock(g)
  \/ WriteMessage(g)

LockNext ==
  \/ \E g \in Goroutines, kind \in Operations : Begin(g, kind)
  \/ \E g \in Goroutines : muRLock(g)
  \/ \E g \in Goroutines : muRUnlock(g)
  \/ \E g \in Goroutines : muLock(g)
  \/ \E g \in Goroutines : muLockReturn(g)
  \/ \E g \in Goroutines : muUnlock(g)
  \/ \E g \in Goroutines : wsClientsMuLock(g)
  \/ \E g \in Goroutines : wsClientsMuUnlock(g)
  \/ \E g \in Goroutines : WriteMessage(g)

LockInit == StatusInit

\* a goroutine whose next call can return infinitely often gets through it
\* (a sync.Mutex hands itself to a waiter that has waited too long), and
\* every WriteMessage returns
SpecLock == LockInit /\ [][LockNext]_vars /\ \A g \in Goroutines : SF_vars(Step(g))

\* the goroutine holds lb.mu, as a reader or as the announced writer
HoldsMu(g) == g \in locks.readers \/ g \in locks.rwait \/ locks.w = g

\* C38: no goroutine asks for lb.wsClientsMu while it holds or awaits lb.mu,
\* and, every WriteMessage returning, every SelectWorker, GetStatus,
\* UpdateWorker, SetAlgorithm, BroadcastStatus, probe update and /task handler
\* that has started completes.
C38_NoDeadlock ==
  /\ [](\A g \in Goroutines : At(g) = "WsLock" => ~HoldsMu(g))
  /\ \A g \in Goroutines : (op[g] # NoOp) ~> (op[g] = NoOp)

\* a BroadcastStatus that waited, holding lb.wsClientsMu, for a writer on
\* lb.mu has got through to its last call, while another goroutine waits for
\* lb.wsClientsMu and a third has announced itself as the next writer
C38_Witness ==
  \E g, h, k \in Goroutines :
    /\ op[g].todo = <<"WsUnlock">> /\ op[g].blocked /\ locks.ws = g
    /\ h # g /\ At(h) = "WsLock"
    /\ k \notin {g, h} /\ locks.w = k


====
